---- MODULE Spec2Model ----
(***************************************************************************)
(* Verification model of CodeRAG's in-memory background job worker         *)
(* (src/worker.py, class BackgroundWorker), of the job retry endpoint      *)
(* (src/routers/jobs.py), of the QA chain cache, create_vector_db and      *)
(* get_qa_chain (src/rag_engine.py), of the ingestion job handlers         *)
(* (src/worker.py) and of the reranker's functions (src/reranker.py).      *)
(* Each part has its own specification over its own variables: Spec and    *)
(* SpecClock (worker), SpecCache, SpecBatcher, SpecIngest, SpecFusion,     *)
(* SpecRerank, SpecChain.                                                  *)
(*                                                                         *)
(* Granularity.  Every method of BackgroundWorker is driven from coroutines*)
(* of one asyncio event loop (src/api.py lifespan, the async route         *)
(* handlers), so the code between two awaits is one atomic step.  The only *)
(* suspension points are: `await handler(...)` (worker.py:114),            *)
(* `await asyncio.sleep(0.1)` (worker.py:139) and `await asyncio.gather`   *)
(* (worker.py:160).                                                        *)
(*                                                                         *)
(* The W tasks one start() call creates run the same coroutine and are     *)
(* told apart by nothing the program reads, so the model keeps, for each   *)
(* start() call, how many of its tasks are at the top of the loop and      *)
(* which jobs the others are running (the rest have ended).                *)
(*                                                                         *)
(* Time is counted in ticks of TickSeconds seconds; datetime.now() reads   *)
(* the variable now.  Spec keeps the clock still, SpecClock lets it tick.  *)
(* A handler is a coroutine the worker knows nothing about: it returns a   *)
(* value, raises an Exception, or raises another BaseException.            *)
(* Job.created_at is not modelled (no operation of the worker reads it).  *)
(* uuid4() job ids are modelled as fresh ids 1, 2, ...                     *)
(***************************************************************************)
EXTENDS Integers, Sequences, FiniteSets, TLC

VARIABLES
    now,              \* datetime.now(timezone.utc), in ticks
    _handlers,        \* BackgroundWorker._handlers: the registered names
    _queue,           \* BackgroundWorker._queue: deque of Job (job ids)
    _jobs,            \* BackgroundWorker._jobs: the ids in the job table
    jobs,             \* every Job object ever created: id -> its fields
    _running,         \* BackgroundWorker._running
    _active_workers,  \* BackgroundWorker._active_workers
    _worker_tasks,    \* BackgroundWorker._worker_tasks: list of tasks
    loops,            \* every _worker_loop task ever created, by start() call
    stops,            \* the stop() calls in progress: caller -> state
    invoked,          \* history: job id -> number of handler invocations
    lastOp,           \* history: the operation that made the last step
    _qa_chain_cache,  \* rag_engine._qa_chain_cache: dict, in insertion order
    index,            \* the vector store on disk: path -> version (0: none)
    chains,           \* the number of QA chains ever built
    ready,            \* the get_cached_qa_chain calls the loop has still to run
    call,             \* the get_cached_qa_chain call that is building a chain
    ret,              \* history: what the last cache operation returned
    cvd,              \* the create_vector_db call in progress
    repos,            \* the Repository rows: repository id -> status
    runs,             \* job id -> where the job's handler coroutine stands
    fusion,           \* the last reciprocal_rank_fusion calls and results
    rr,               \* the last rerank_documents call and its result
    disk,             \* the files under each vector_db_path
    qa,               \* the last get_qa_chain call and its result
    hr,               \* the last HybridRetriever.retrieve call and its result
    memory,           \* chain.memory.chat_memory.messages of the cached chain
    messages,         \* the ChatMessage rows: session id -> roles, oldest first
    chats,            \* the chat requests: client -> where its handler stands
    requests,         \* RateLimiter.requests: user_id -> list of timestamps
    admitted,         \* history: user_id -> the times of the calls allowed
    verdict           \* history: the last is_allowed call and what it returned

\* The variables of the chain cache and of create_vector_db.
cacheVars == <<_qa_chain_cache, index, chains, ready, call, ret>>
batcherVars == <<cvd>>

\* The variables of the ingestion job handlers.
ingestVars == <<repos, runs>>

\* The variables of the reranker's functions and of get_qa_chain.
rerankVars == <<fusion, rr>>
chainVars == <<disk, qa>>

\* The variable of HybridRetriever.retrieve.
retrieveVars == <<hr>>

\* The variables of the chat endpoint.
chatVars == <<memory, messages, chats>>

\* The variables of the rate limiter.
limiterVars == <<requests, admitted, verdict>>

\* The variables of the request path: retrieval, chat, rate limiting.
requestVars == <<retrieveVars, chatVars, limiterVars>>

\* The variables of the job worker, the clock apart.
workerVars == <<_handlers, _queue, _jobs, jobs, _running, _active_workers,
                _worker_tasks, loops, stops, invoked, lastOp>>

vars == <<now, _handlers, _queue, _jobs, jobs, _running, _active_workers,
          _worker_tasks, loops, stops, invoked, lastOp, cacheVars,
          batcherVars, ingestVars, rerankVars, chainVars, requestVars>>

----------------------------------------------------------------------------
\* Bounds of the model.

\* max_workers of the BackgroundWorker under test (the claims speak of W).
W == 2
\* Number of jobs ever created (enqueue and retry together).
MaxJobs == 3
\* Number of start() calls that spawn loops.
MaxStarts == 2
\* Last tick of the clock.
MaxTime == 1
\* Capacity of the chain cache (10 in rag_engine.py:149).
QA_CHAIN_CACHE_MAX_SIZE == 2
\* Last tick of the clock in the chain cache's specification.
MaxCacheTime == 2
\* Number of QA chains ever built.
MaxBuilds == 3
\* Number of times one vector store is written (ingest and re-index).
MaxIndexVersion == 2
\* Number of get_cached_qa_chain calls that wait for the event loop.
MaxReady == 1
\* Chunks per embedding batch (50 in rag_engine.py:33).
EMBEDDING_BATCH_SIZE == 2
\* Longest list of chunks given to create_vector_db.
MaxChunks == 5
\* Longest ranked list given to reciprocal_rank_fusion.
MaxRank == 2
\* Number of ranked lists given to reciprocal_rank_fusion.
MaxLists == 2
\* Largest top_n given to reciprocal_rank_fusion.
MaxTopN == 2
\* Length of the prefix of the content that is the fusion key (500 in
\* reranker.py:169).
KeyChars == 1
\* Longest list of candidates given to rerank_documents.
MaxDocs == 3
\* Largest top_k given to rerank_documents.
MaxTopK == 2

----------------------------------------------------------------------------
\* Values.

\* Python's None / a present value, as a sequence of length 0 / 1.
None == <<>>
Some(x) == <<x>>

\* class JobStatus
PENDING == "pending"
RUNNING == "running"
COMPLETED == "completed"
FAILED == "failed"
JobStatus == {PENDING, RUNNING, COMPLETED, FAILED}

\* The names given to worker.register in the repository.
HandlerNames == {"ingest_repository", "reindex_repository"}

\* The enqueue calls callers make: a handler name and its positional
\* arguments (worker.py:193-198 and worker.py:285).
Calls ==
    { <<"ingest_repository", <<"user1", "repo1", "url1">>>>,
      <<"reindex_repository", <<"repo2", "user1">>>> }

\* What a handler coroutine can return.
ReturnValues == {"success"}

\* What a handler coroutine can raise: an Exception with a message, an
\* Exception constructed without arguments, or a BaseException that is not
\* an Exception (asyncio.CancelledError, KeyboardInterrupt, SystemExit).
Raised ==
    { [cls |-> "Exception", args |-> <<"boom">>],
      [cls |-> "Exception", args |-> <<>>],
      [cls |-> "CancelledError", args |-> <<>>] }

\* isinstance(e, Exception)
IsException(e) == e.cls = "Exception"

\* str(e) of BaseException: the empty string without arguments, the
\* argument's text with one argument.
Str(e) == IF Len(e.args) = 0 THEN "" ELSE e.args[1]

\* One tick of the model's clock, in seconds: half an hour.
SecondsPerHour == 3600
TickSeconds == SecondsPerHour \div 2

\* max_age_hours values given to cleanup_old_jobs.
MaxAges == {0, 1}

\* The call sites of stop() (src/api.py lifespan shutdown).
StopCallers == {"lifespan"}

\* Ids a caller may ask about: every id ever issued plus one never issued.
AskedIds == 1..(MaxJobs + 1)

\* History of the last step: an enqueue call that raised, a retry request
\* that enqueued (with the id asked for), Step for every other step.
Op(name, ok, id) == [op |-> name, ok |-> ok, id |-> id]
Step == Op("step", TRUE, 0)

\* rag_engine.py:148, in seconds.
QA_CHAIN_CACHE_TTL == 3600

\* vector_db_path values: the paths of QA_CHAIN_CACHE_MAX_SIZE + 1
\* repositories, and the empty string.
PathNames == <<"data/a", "data/b", "data/c", "data/d", "data/e">>
Paths == {PathNames[i] : i \in 1..(QA_CHAIN_CACHE_MAX_SIZE + 1)}
Keys == Paths \cup {""}

\* Arguments of clear_qa_chain_cache: None (the default) or a string.
ClearArgs == {None} \cup {Some(k) : k \in Keys}

\* A get_cached_qa_chain(k) call the event loop has still to run: a chat
\* handler is scheduled and calls it in its next step.  saw is the chain
\* that was built for k while the call waited, if any.
ReadyCall(k) == [key |-> k, saw |-> None]

\* History of the last step of the cache: NoRet when no call returned, else
\* the call (get / clear), its argument, the chain returned, how get found
\* the key (hit / expired / absent, as it logs), the entry it evicted (as it
\* logs), and the chain that was built while the call waited, if any.
NoRet == [op |-> "none", key |-> None, chain |-> None, found |-> "",
          evicted |-> None, saw |-> None]

\* rag_engine.py:94, 117
max_retries == 3

\* rag_engine.py:106, 125  `wait_time = (attempt + 1) * 30`
BackoffSeconds == 30

\* The chunk lists given to create_vector_db: n documents, told apart by
\* their place in the list.
Texts(n) == [d \in 1..n |-> d]

\* No create_vector_db call has been made.
NoCall ==
    [pc |-> "idle", texts |-> <<>>, i |-> 0, attempt |-> 0, db |-> None,
     calls |-> <<>>, failed |-> FALSE, exhausted |-> FALSE,
     fatal |-> FALSE, waits |-> <<>>, saved |-> None]

\* The rows of the Repository table (database.py:51: status defaults to
\* "pending").
Repositories == {"repo1", "repo2"}

\* The handler coroutine of a job that has not been called: pc is where
\* the coroutine stands, load what load_and_index_repo gave it, result and
\* exc what it returns or raises.
NoRun == [pc |-> "none", load |-> "", result |-> None, exc |-> None]

\* No reciprocal_rank_fusion call has been made: the arguments of the
\* call, its result, and the results of calling again with the same lists
\* and with the lists in another order.
NoFusion ==
    [rankings |-> <<>>, k |-> 0, top_n |-> 0, out |-> None, again |-> None,
     order |-> <<>>, permuted |-> None]

\* No rerank_documents call has been made.
NoRerank ==
    [documents |-> <<>>, top_k |-> 0, min_score |-> 0, model |-> "",
     predict |-> None, out |-> None]

\* Nothing is stored under a vector_db_path.
NoFiles == [dir |-> FALSE, index |-> "missing", texts |-> "missing"]

\* No get_qa_chain call has been made: the path asked for, the files the
\* call found there, and the chain it returned.
NoChain == [path |-> None, files |-> NoFiles, chain |-> None]

\* The chat sessions of the signed-in users, and the guests; all of them
\* ask about one repository, so get_cached_qa_chain gives them one chain.
Sessions == {"s1", "s2"}
Guests == {"g1"}
Clients == Sessions \cup Guests

\* A client without a request: pc is where its handler stands and history
\* the chat_history its last invocation of the chain was given.
NoChat == [pc |-> "idle", history |-> None]

\* The user ids the rate limiter is asked about.
Users == {"u1", "guest:g1"}

\* No is_allowed call has been made: the user of the last call, what it
\* returned, and get_remaining for that user before and after the call.
NoVerdict ==
    [user |-> None, allowed |-> FALSE, before |-> 0, remaining |-> 0]

\* No HybridRetriever.retrieve call has been made: what the two retrievers
\* gave, the retriever's use_reranking, the model and what predict did, k
\* and fetch_k, the result, and the result of the same call on a retriever
\* with use_reranking off.
NoRetrieve ==
    [dense |-> None, sparse |-> None, use_reranking |-> FALSE, model |-> "",
     predict |-> None, k |-> 0, fetch_k |-> 0, out |-> None, plain |-> None]

----------------------------------------------------------------------------
\* class Job (dataclass defaults)
Job(func_name, args) ==
    [ func_name |-> func_name, args |-> args, status |-> PENDING,
      result |-> None, error |-> None,
      started_at |-> None, completed_at |-> None ]

\* BackgroundWorker.__init__, for the module-level worker.
Init ==
    /\ now = 0
    /\ _handlers = {}
    /\ _queue = <<>>
    /\ _jobs = {}
    /\ jobs = <<>>
    /\ _running = FALSE
    /\ _active_workers = 0
    /\ _worker_tasks = <<>>
    /\ loops = <<>>
    /\ stops = [c \in StopCallers |-> [pc |-> "idle", awaited |-> {}]]
    /\ invoked = <<>>
    /\ lastOp = Step
    /\ _qa_chain_cache = <<>>
    /\ index = [k \in Paths |-> 0]
    /\ chains = 0
    /\ ready = <<>>
    /\ call = None
    /\ ret = NoRet
    /\ cvd = NoCall
    /\ repos = [r \in Repositories |-> "pending"]
    /\ runs = [j \in 1..MaxJobs |-> NoRun]
    /\ fusion = NoFusion
    /\ rr = NoRerank
    /\ hr = NoRetrieve
    /\ memory = <<>>
    /\ messages = [s \in Sessions |-> <<>>]
    /\ chats = [c \in Clients |-> NoChat]
    /\ requests = [u \in Users |-> <<>>]
    /\ admitted = [u \in Users |-> <<>>]
    /\ verdict = NoVerdict
    /\ disk = [k \in Paths |-> NoFiles]
    /\ qa = NoChain

\* The clock advances by one tick.
Tick ==
    /\ now < MaxTime
    /\ now' = now + 1
    /\ lastOp' = Step
    /\ UNCHANGED <<cacheVars, batcherVars, ingestVars, rerankVars, chainVars, requestVars>>
    /\ UNCHANGED <<_handlers, _queue, _jobs, jobs, _running, _active_workers,
                   _worker_tasks, loops, stops, invoked>>

\* BackgroundWorker.register(name)(func)
Register(name) ==
    /\ _handlers' = _handlers \cup {name}
    /\ lastOp' = Step
    /\ UNCHANGED <<cacheVars, batcherVars, ingestVars, rerankVars, chainVars, requestVars>>
    /\ UNCHANGED <<now, _queue, _jobs, jobs, _running, _active_workers,
                   _worker_tasks, loops, stops, invoked>>


----------------------------------------------------------------------------
\* BackgroundWorker.enqueue

\* Mutant of EnqueueAllowed: the check of the handler table is missing.
EnqueueAllowedUnchecked(func_name) == TRUE

\* worker.py:81  `if func_name not in self._handlers: raise ValueError`
EnqueueAllowed(func_name) == func_name \in _handlers

\* worker.py:84-93: a new Job with a fresh id is appended to the queue and
\* stored in the job table.
NewJobId == Len(jobs) + 1

EnqueueEffect(func_name, args) ==
    /\ jobs' = Append(jobs, Job(func_name, args))
    /\ _queue' = Append(_queue, NewJobId)
    /\ _jobs' = _jobs \cup {NewJobId}
    /\ invoked' = Append(invoked, 0)

\* enqueue(func_name, *args) with a registered name.
Enqueue(func_name, args) ==
    /\ EnqueueAllowed(func_name)
    /\ Len(jobs) < MaxJobs
    /\ EnqueueEffect(func_name, args)
    /\ lastOp' = Step
    /\ UNCHANGED <<cacheVars, batcherVars, ingestVars, rerankVars, chainVars, requestVars>>
    /\ UNCHANGED <<now, _handlers, _running, _active_workers, _worker_tasks,
                   loops, stops>>

\* enqueue(func_name, *args) raising ValueError.
EnqueueUnknown(func_name, args) ==
    /\ ~EnqueueAllowed(func_name)
    /\ lastOp' = Op("enqueue", FALSE, 0)
    /\ UNCHANGED <<cacheVars, batcherVars, ingestVars, rerankVars, chainVars, requestVars>>
    /\ UNCHANGED <<now, _handlers, _queue, _jobs, jobs, _running,
                   _active_workers, _worker_tasks, loops, stops, invoked>>

----------------------------------------------------------------------------
\* routers/jobs.py retry_job

\* Mutant of RetryAllowed: every finished job may be retried.
RetryAllowedFinished(job) == job.status \in {COMPLETED, FAILED}

\* jobs.py:120  `if job.status != JobStatus.FAILED: raise HTTPException(400)`
RetryAllowed(job) == job.status = FAILED

\* jobs.py:115-118: worker.get_job(job_id) is None -> 404.
RetryNotFound(job_id) ==
    /\ job_id \notin _jobs
    /\ lastOp' = Step
    /\ UNCHANGED <<cacheVars, batcherVars, ingestVars, rerankVars, chainVars, requestVars>>
    /\ UNCHANGED <<now, _handlers, _queue, _jobs, jobs, _running,
                   _active_workers, _worker_tasks, loops, stops, invoked>>

\* jobs.py:120-124: the job is not Failed -> 400.
RetryRejected(job_id) ==
    /\ job_id \in _jobs
    /\ ~RetryAllowed(jobs[job_id])
    /\ lastOp' = Step
    /\ UNCHANGED <<cacheVars, batcherVars, ingestVars, rerankVars, chainVars, requestVars>>
    /\ UNCHANGED <<now, _handlers, _queue, _jobs, jobs, _running,
                   _active_workers, _worker_tasks, loops, stops, invoked>>

\* jobs.py:127: worker.enqueue(job.func_name, *job.args, **job.kwargs)
Retry(job_id) ==
    /\ job_id \in _jobs
    /\ RetryAllowed(jobs[job_id])
    /\ Len(jobs) < MaxJobs
    /\ IF EnqueueAllowed(jobs[job_id].func_name)
       THEN /\ EnqueueEffect(jobs[job_id].func_name, jobs[job_id].args)
            /\ lastOp' = Op("retry", TRUE, job_id)
       ELSE /\ lastOp' = Op("retry", FALSE, job_id)
            /\ UNCHANGED <<_queue, _jobs, jobs, invoked>>
    /\ UNCHANGED <<cacheVars, batcherVars, ingestVars, rerankVars, chainVars, requestVars>>
    /\ UNCHANGED <<now, _handlers, _running, _active_workers, _worker_tasks,
                   loops, stops>>

----------------------------------------------------------------------------
\* BackgroundWorker.start / stop

\* The _worker_loop tasks of one start() call: `idle` of them are at the
\* top of the loop (or asleep), one is suspended in the handler of each job
\* of `busy`, and the other W - idle - |busy| have ended.
Spawned == [idle |-> W, busy |-> {}]

\* The tasks of start() call b that have not ended.
Live(b) == loops[b].idle + Cardinality(loops[b].busy)

\* asyncio.Task.done() for every task of start() call b.
AllDone(b) == Live(b) = 0

\* worker.py:143-144  `if self._running: return`
StartNoop ==
    /\ _running
    /\ lastOp' = Step
    /\ UNCHANGED <<cacheVars, batcherVars, ingestVars, rerankVars, chainVars, requestVars>>
    /\ UNCHANGED <<now, _handlers, _queue, _jobs, jobs, _running,
                   _active_workers, _worker_tasks, loops, stops, invoked>>

\* worker.py:146-152: W _worker_loop tasks are created and remembered.
Start ==
    /\ ~_running
    /\ Len(loops) < MaxStarts
    /\ _running' = TRUE
    /\ loops' = Append(loops, Spawned)
    /\ _worker_tasks' = Append(_worker_tasks, Len(loops) + 1)
    /\ lastOp' = Step
    /\ UNCHANGED <<cacheVars, batcherVars, ingestVars, rerankVars, chainVars, requestVars>>
    /\ UNCHANGED <<now, _handlers, _queue, _jobs, jobs, _active_workers,
                   stops, invoked>>

Range(s) == {s[i] : i \in DOMAIN s}

RunningJobs == {j \in DOMAIN jobs : jobs[j].status = RUNNING}

NoStop == [pc |-> "idle", awaited |-> {}]

\* worker.py:156-160: _running is cleared; with tasks to wait for, the
\* caller suspends in asyncio.gather(*self._worker_tasks).
StopCall(c) ==
    /\ stops[c].pc = "idle"
    /\ _running' = FALSE
    /\ stops' = [stops EXCEPT ![c] =
                   IF _worker_tasks # <<>>
                   THEN [pc |-> "gather", awaited |-> Range(_worker_tasks)]
                   ELSE NoStop]
    /\ lastOp' = Step
    /\ UNCHANGED <<cacheVars, batcherVars, ingestVars, rerankVars, chainVars, requestVars>>
    /\ UNCHANGED <<now, _handlers, _queue, _jobs, jobs, _active_workers,
                   _worker_tasks, loops, invoked>>

\* worker.py:160-163: gather(..., return_exceptions=True) completes when
\* every awaited task is done; the task list is cleared and stop returns.
StopReturn(c) ==
    /\ stops[c].pc = "gather"
    /\ \A b \in stops[c].awaited : AllDone(b)
    /\ _worker_tasks' = <<>>
    /\ stops' = [stops EXCEPT ![c] = NoStop]
    /\ lastOp' = Step
    /\ UNCHANGED <<cacheVars, batcherVars, ingestVars, rerankVars, chainVars, requestVars>>
    /\ UNCHANGED <<now, _handlers, _queue, _jobs, jobs, _running,
                   _active_workers, loops, invoked>>

----------------------------------------------------------------------------
\* BackgroundWorker._worker_loop and _process_job

\* Mutant of PopLeft: pop() takes the newest job.
PopRight(q) == <<q[Len(q)], SubSeq(q, 1, Len(q) - 1)>>

\* Mutant of PopLeft: the head is read but left in the queue.
PeekLeft(q) == <<Head(q), q>>

\* worker.py:133  `job = self._queue.popleft()`: the job taken and the
\* queue that is left.
PopLeft(q) == <<Head(q), Tail(q)>>

\* Mutant of Started: the status is not set to RUNNING.
StartedKeepsStatus(job) == [job EXCEPT !.started_at = Some(now)]

\* worker.py:109-110: the job as _process_job marks it before the handler.
Started(job) == [job EXCEPT !.status = RUNNING, !.started_at = Some(now)]

\* worker.py:114-115, 122: the handler returned value v.
Succeeded(job, v) ==
    [job EXCEPT !.result = Some(v), !.status = COMPLETED,
                !.completed_at = Some(now)]

\* worker.py:117-119, 122: the handler raised e, an Exception.
Errored(job, e) ==
    [job EXCEPT !.status = FAILED, !.error = Some(Str(e)),
                !.completed_at = Some(now)]

\* worker.py:121-122: the handler raised e, which `except Exception` does
\* not catch; only the finally block runs.
Escaped(job, e) == [job EXCEPT !.completed_at = Some(now)]

\* worker.py:132  `if self._queue and self._active_workers < self._max_workers`
CanTake == _queue # <<>> /\ _active_workers < W

\* worker.py:128: `while self._running` is false, the coroutine returns.
LoopExit(b) ==
    /\ loops[b].idle > 0
    /\ ~_running
    /\ loops' = [loops EXCEPT ![b].idle = @ - 1]
    /\ lastOp' = Step
    /\ UNCHANGED <<cacheVars, batcherVars, ingestVars, rerankVars, chainVars, requestVars>>
    /\ UNCHANGED <<now, _handlers, _queue, _jobs, jobs, _running,
                   _active_workers, _worker_tasks, stops, invoked>>

\* worker.py:131-139: no job is taken; the loop sleeps and comes back.
LoopIdle(b) ==
    /\ loops[b].idle > 0
    /\ _running
    /\ ~CanTake
    /\ lastOp' = Step
    /\ UNCHANGED <<cacheVars, batcherVars, ingestVars, rerankVars, chainVars, requestVars>>
    /\ UNCHANGED <<now, _handlers, _queue, _jobs, jobs, _running,
                   _active_workers, _worker_tasks, loops, stops, invoked>>

\* worker.py:131-137, 109-114: a job is popped, a slot is taken, the job
\* is marked Running and its handler is called; the loop suspends in the
\* handler.  (A name missing from _handlers would raise KeyError inside the
\* try block: the job fails at once and the loop goes on.)
Dispatch(b) ==
    /\ loops[b].idle > 0
    /\ _running
    /\ CanTake
    /\ LET j == PopLeft(_queue)[1] IN
       /\ _queue' = PopLeft(_queue)[2]
       /\ IF jobs[j].func_name \in _handlers
          THEN /\ jobs' = [jobs EXCEPT ![j] = Started(jobs[j])]
               /\ _active_workers' = _active_workers + 1
               /\ invoked' = [invoked EXCEPT ![j] = @ + 1]
               /\ loops' = [loops EXCEPT ![b] =
                      [idle |-> @.idle - 1, busy |-> @.busy \cup {j}]]
          ELSE /\ jobs' = [jobs EXCEPT ![j] =
                      Errored(Started(jobs[j]),
                              [cls |-> "Exception", args |-> <<jobs[j].func_name>>])]
               /\ UNCHANGED <<_active_workers, invoked, loops>>
    /\ lastOp' = Step
    /\ UNCHANGED <<cacheVars, batcherVars, ingestVars, rerankVars, chainVars, requestVars>>
    /\ UNCHANGED <<now, _handlers, _jobs, _running, _worker_tasks, stops>>

\* worker.py:114-116, 121-124: the handler of job j returns v.
HandlerReturn(b, j, v) ==
    /\ j \in loops[b].busy
    /\ jobs' = [jobs EXCEPT ![j] = Succeeded(jobs[j], v)]
    /\ _active_workers' = _active_workers - 1
    /\ loops' = [loops EXCEPT ![b] =
                   [idle |-> @.idle + 1, busy |-> @.busy \ {j}]]
    /\ lastOp' = Step
    /\ UNCHANGED <<cacheVars, batcherVars, ingestVars, rerankVars, chainVars, requestVars>>
    /\ UNCHANGED <<now, _handlers, _queue, _jobs, _running, _worker_tasks,
                   stops, invoked>>

\* worker.py:117-124: the handler of job j raises e.  An Exception is
\* recorded on the job and the loop goes on; any other BaseException leaves
\* through the finally block and ends the _worker_loop task.
HandlerRaise(b, j, e) ==
    /\ j \in loops[b].busy
    /\ jobs' = [jobs EXCEPT ![j] =
                  IF IsException(e) THEN Errored(jobs[j], e)
                                    ELSE Escaped(jobs[j], e)]
    /\ _active_workers' = _active_workers - 1
    /\ loops' = [loops EXCEPT ![b] =
                   [idle |-> IF IsException(e) THEN @.idle + 1 ELSE @.idle,
                    busy |-> @.busy \ {j}]]
    /\ lastOp' = Step
    /\ UNCHANGED <<cacheVars, batcherVars, ingestVars, rerankVars, chainVars, requestVars>>
    /\ UNCHANGED <<now, _handlers, _queue, _jobs, _running, _worker_tasks,
                   stops, invoked>>

----------------------------------------------------------------------------
\* BackgroundWorker.cleanup_old_jobs

\* Mutant of AgeExceeds: `>=` in place of `>`.
AgeReaches(completed_at, max_age_hours) ==
    (now - completed_at) * TickSeconds >= max_age_hours * SecondsPerHour

\* worker.py:173-174: age = (now - completed_at).total_seconds() / 3600
\* (a float), and `age > max_age_hours`.
AgeExceeds(completed_at, max_age_hours) ==
    (now - completed_at) * TickSeconds > max_age_hours * SecondsPerHour

\* worker.py:170-175: the ids collected in to_remove.
ToRemove(max_age_hours) ==
    { j \in _jobs :
        /\ jobs[j].status \in {COMPLETED, FAILED}
        /\ jobs[j].completed_at # None
        /\ AgeExceeds(jobs[j].completed_at[1], max_age_hours) }

\* worker.py:165-181
Cleanup(max_age_hours) ==
    /\ _jobs' = _jobs \ ToRemove(max_age_hours)
    /\ lastOp' = Step
    /\ UNCHANGED <<cacheVars, batcherVars, ingestVars, rerankVars, chainVars, requestVars>>
    /\ UNCHANGED <<now, _handlers, _queue, jobs, _running, _active_workers,
                   _worker_tasks, loops, stops, invoked>>

----------------------------------------------------------------------------
Next ==
    \/ \E n \in HandlerNames : Register(n)
    \/ \E c \in Calls : Enqueue(c[1], c[2])
    \/ \E c \in Calls : EnqueueUnknown(c[1], c[2])
    \/ \E id \in AskedIds : RetryNotFound(id)
    \/ \E id \in AskedIds : RetryRejected(id)
    \/ \E id \in AskedIds : Retry(id)
    \/ StartNoop
    \/ Start
    \/ \E c \in StopCallers : StopCall(c)
    \/ \E c \in StopCallers : StopReturn(c)
    \/ \E b \in DOMAIN loops : LoopExit(b)
    \/ \E b \in DOMAIN loops : LoopIdle(b)
    \/ \E b \in DOMAIN loops : Dispatch(b)
    \/ \E b \in DOMAIN loops, j \in DOMAIN jobs, v \in ReturnValues :
          HandlerReturn(b, j, v)
    \/ \E b \in DOMAIN loops, j \in DOMAIN jobs, e \in Raised :
          HandlerRaise(b, j, e)
    \/ \E m \in MaxAges : Cleanup(m)

\* The worker with the clock standing still: every timestamp reads 0.
Spec == Init /\ [][Next]_vars

\* The worker with time passing.
NextClock == Next \/ Tick

SpecClock == Init /\ [][NextClock]_vars

----------------------------------------------------------------------------
\* Properties of the job worker.

Terminal == {COMPLETED, FAILED}

\* The jobs some loop is running the handler of.
InFlight == UNION {loops[b].busy : b \in DOMAIN loops}

\* C1: a job's status only moves Pending -> Running -> Completed or
\* Pending -> Running -> Failed: a new job starts Pending, no step skips
\* Running, leaves Completed or Failed, or goes back.
C1_StatusMonotonic ==
    [][ /\ \A j \in DOMAIN jobs :
             \/ jobs'[j].status = jobs[j].status
             \/ jobs[j].status = PENDING /\ jobs'[j].status = RUNNING
             \/ jobs[j].status = RUNNING /\ jobs'[j].status \in Terminal
        /\ \A j \in DOMAIN jobs' \ DOMAIN jobs : jobs'[j].status = PENDING
      ]_vars

\* C1 witness: one job went Pending -> Running -> Completed, another
\* Pending -> Running -> Failed, a third is still Pending.
C1_Witness ==
    \E a, b, c \in DOMAIN jobs :
        /\ jobs[a].status = COMPLETED /\ jobs[b].status = FAILED
        /\ jobs[c].status = PENDING
        /\ invoked[a] = 1 /\ invoked[b] = 1

\* C2: at most W jobs have status Running.
C2_AtMostWRunning == Cardinality(RunningJobs) <= W

\* C3: jobs leave Pending in enqueue order (ids are issued in enqueue
\* order): no job is past Pending while an earlier one is still Pending.
C3_FifoDequeue ==
    \A a, b \in DOMAIN jobs :
        (a < b /\ jobs[a].status = PENDING) => jobs[b].status = PENDING

\* C3 witness: two loops took jobs 1 and 2 in that order, the later one
\* finished first, and job 3 still waits.
C3_Witness ==
    /\ Len(jobs) = 3
    /\ jobs[1].status = RUNNING /\ 1 \in InFlight
    /\ jobs[2].status = COMPLETED
    /\ jobs[3].status = PENDING

\* C4: when the handler of a job raises (the job leaves its loop without
\* being Completed), the job is Failed with the message stored as a string
\* and the loop that ran it is back at the top of the loop.
C4_RaiseIsContained ==
    [][ \A b \in DOMAIN loops : \A j \in loops[b].busy :
          (j \notin loops'[b].busy /\ jobs'[j].status # COMPLETED)
          => /\ jobs'[j].status = FAILED
             /\ jobs'[j].error # None
             /\ loops'[b].idle = loops[b].idle + 1
      ]_vars

\* C5: an enqueue that raises leaves the queue, the job table and the jobs
\* unchanged; every job that appears has a registered handler name, is
\* Pending with nothing else set, is in the table and is the new tail of
\* the queue (whatever the worker is doing).
C5_EnqueueChecksHandler ==
    [][ /\ lastOp' = Op("enqueue", FALSE, 0)
             => UNCHANGED <<_queue, _jobs, jobs>>
        /\ \A j \in DOMAIN jobs' \ DOMAIN jobs :
             /\ jobs'[j].func_name \in _handlers
             /\ jobs'[j] = Job(jobs'[j].func_name, jobs'[j].args)
             /\ _queue' = Append(_queue, j)
             /\ _jobs' = _jobs \cup {j}
             /\ \A i \in DOMAIN jobs : jobs'[i] = jobs[i]
      ]_vars

\* C5 witness: an enqueue has just been refused for an unregistered name
\* while a job enqueued under the registered name waits, no loop started.
C5_Witness ==
    /\ lastOp = Op("enqueue", FALSE, 0)
    /\ _handlers # HandlerNames
    /\ Len(_queue) = 1 /\ jobs[_queue[1]].status = PENDING
    /\ loops = <<>>

\* C6: the handler of a job is invoked at most once.
C6_AtMostOnce == \A j \in DOMAIN jobs : invoked[j] <= 1

\* C6 witness: after stop() and a second start(), a loop of the first
\* start() and a loop of the second one each run a job.
C6_Witness ==
    /\ Len(loops) = 2
    /\ loops[1].busy # {} /\ loops[2].busy # {}
    /\ \A j \in DOMAIN jobs : invoked[j] = 1

\* The worker was started, stop() has returned, start() was not called
\* since, and every dispatch loop has exited.
Drained ==
    /\ loops # <<>>
    /\ ~_running
    /\ \A c \in StopCallers : stops[c].pc = "idle"
    /\ \A b \in DOMAIN loops : AllDone(b)

\* C7: once stop() has returned and every dispatch loop has exited (the
\* worker was not started again), every job that was Running when stop()
\* was called is Completed or Failed: no job is left Running.
C7_DrainFinishesRunningJobs == Drained => RunningJobs = {}

\* The Completed and Failed jobs of the table whose completed_at lies more
\* than max_age_hours hours back.
OldJobs(max_age_hours) ==
    { j \in _jobs :
        /\ jobs[j].status \in Terminal
        /\ max_age_hours * SecondsPerHour
              < (now - jobs[j].completed_at[1]) * TickSeconds }

C9_RetryIsExplicit ==
    /\ \A j \in DOMAIN jobs :
         jobs[j].status = FAILED
         => j \notin Range(_queue) /\ j \notin InFlight /\ invoked[j] = 1
    /\ lastOp.op = "retry"
         => LET old == lastOp.id
                new == Len(jobs)
            IN  /\ lastOp.ok
                /\ old \in _jobs /\ new # old
                /\ jobs[old].status = FAILED
                /\ jobs[new].status = PENDING
                /\ jobs[new].func_name = jobs[old].func_name
                /\ jobs[new].args = jobs[old].args
                /\ _queue # <<>> /\ _queue[Len(_queue)] = new

\* C9 witness: a retry of a Failed job has just enqueued a new job.
C9_Witness ==
    /\ lastOp.op = "retry" /\ lastOp.ok
    /\ jobs[lastOp.id].status = FAILED
    /\ jobs[Len(jobs)].status = PENDING

\* The job carries a non-empty error string.
HasError(job) == job.error # None /\ job.error[1] # ""

\* C10: a job has a non-empty error string exactly when it is Failed.
C10_ErrorIffFailed ==
    \A j \in DOMAIN jobs : HasError(jobs[j]) <=> jobs[j].status = FAILED

----------------------------------------------------------------------------
\* rag_engine.py: the QA chain cache.
\*
\* get_cached_qa_chain and clear_qa_chain_cache are plain functions without
\* an await, called from coroutines of the event loop (routers/chat.py:110,
\* 204, 341; rag_eval.py:122): a call runs to its return before any other
\* coroutine runs.  The build of a chain (get_qa_chain) blocks the loop for
\* as long as it takes; meanwhile requests arrive and wait for the loop,
\* the clock advances, and executor threads write vector stores
\* (worker.py:258-261).  _qa_chain_cache is a dict: it keeps its keys in
\* insertion order, modelled as a sequence of entries.

\* One item of the dict: key -> (chain, cached_at).
Entry(k, chain, cached_at) ==
    [key |-> k, chain |-> chain, cached_at |-> cached_at]

\* `k in cache`
Has(cache, k) == \E i \in DOMAIN cache : cache[i].key = k

\* `cache[k]`
Item(cache, k) == cache[CHOOSE i \in DOMAIN cache : cache[i].key = k]

\* `del cache[k]` / `cache.pop(k, None)`
Del(cache, k) == SelectSeq(cache, LAMBDA e : e.key # k)

\* `cache[k] = (chain, t)`: a key already present keeps its place.
SetItem(cache, k, chain, t) ==
    IF Has(cache, k)
    THEN [i \in DOMAIN cache |->
            IF cache[i].key = k THEN Entry(k, chain, t) ELSE cache[i]]
    ELSE Append(cache, Entry(k, chain, t))

\* Mutant of Fresh: an entry expires half a TTL after its last access.
FreshHalf(cached_at, current_time) ==
    (current_time - cached_at) * TickSeconds * 2 < QA_CHAIN_CACHE_TTL

\* Mutant of Fresh: `<=` in place of `<`.
FreshInclusive(cached_at, current_time) ==
    (current_time - cached_at) * TickSeconds <= QA_CHAIN_CACHE_TTL

\* rag_engine.py:163  `current_time - cached_at < QA_CHAIN_CACHE_TTL`
Fresh(cached_at, current_time) ==
    (current_time - cached_at) * TickSeconds < QA_CHAIN_CACHE_TTL

\* Mutant of OldestKey: the key inserted first.
OldestInserted(cache) == cache[1].key

\* rag_engine.py:178  `min(cache.keys(), key=lambda k: cache[k][1])`: the
\* first key, in dict order, among those with the smallest cached_at.
OldestKey(cache) ==
    LET i == CHOOSE i \in DOMAIN cache :
                 /\ \A j \in DOMAIN cache :
                        cache[i].cached_at <= cache[j].cached_at
                 /\ \A j \in 1..(i - 1) :
                        cache[j].cached_at # cache[i].cached_at
    IN  cache[i].key

\* Mutant of Full: `>` in place of `>=`.
FullOver(cache) == Len(cache) > QA_CHAIN_CACHE_MAX_SIZE

\* rag_engine.py:176  `len(_qa_chain_cache) >= QA_CHAIN_CACHE_MAX_SIZE`
Full(cache) == Len(cache) >= QA_CHAIN_CACHE_MAX_SIZE

\* rag_engine.py:176-179: the cache after the eviction step.
Evicted(cache) == IF Full(cache) THEN Del(cache, OldestKey(cache)) ELSE cache

\* Mutant of Stored: the eviction is made before `if chain:`.
StoredEvictsFirst(cache, k, chain, current_time) ==
    IF chain # None
    THEN SetItem(Evicted(cache), k, chain[1], current_time)
    ELSE Evicted(cache)

\* rag_engine.py:174-182: the cache after get_qa_chain returned `chain`
\* (None for a failed build).
Stored(cache, k, chain, current_time) ==
    IF chain # None
    THEN SetItem(Evicted(cache), k, chain[1], current_time)
    ELSE cache

\* rag_engine.py:191  `if vector_db_path:` (None and "" are false)
Truthy(arg) == arg # None /\ arg[1] # ""

\* rag_engine.py:191-194: the cache after clear_qa_chain_cache(arg).
Cleared(cache, arg) == IF Truthy(arg) THEN Del(cache, arg[1]) ELSE <<>>

\* Mutant of LoopFree: a call does not keep other calls from running.
LoopNeverBusy == TRUE

\* The event loop is not inside a get_cached_qa_chain call.
LoopFree == call = None

\* os.path.exists(vector_db_path) (rag_engine.py:204): false for "".
Exists(k) == k \in Paths /\ index[k] > 0

\* A ConversationalRetrievalChain object: the id-th one built, over the
\* vector store as FAISS.load_local read it (rag_engine.py:213, 274);
\* built is the time get_qa_chain returned it (rag_engine.py:173, 283).
Chain(id, version, built) ==
    [id |-> id, version |-> version, built |-> built]

\* What get_cached_qa_chain returned.
GetRet(k, chain, found, evicted, saw) ==
    [op |-> "get", key |-> Some(k), chain |-> chain, found |-> found,
     evicted |-> evicted, saw |-> saw]

\* rag_engine.py:161-170: how the call finds its key.
Found(cache, k, current_time) ==
    IF ~Has(cache, k) THEN "absent"
    ELSE IF Fresh(Item(cache, k).cached_at, current_time) THEN "hit"
    ELSE "expired"

\* time.time() advances by one tick.
TickCache ==
    /\ now < MaxCacheTime
    /\ now' = now + 1
    /\ ret' = NoRet
    /\ UNCHANGED <<_qa_chain_cache, index, chains, ready, call>>
    /\ UNCHANGED <<workerVars, batcherVars, ingestVars, rerankVars, chainVars, requestVars>>

\* A chat request for the repository at path k reaches its handler
\* (routers/chat.py:110, 204, 341): the handler is put on the event loop's
\* ready queue and calls get_cached_qa_chain(k) when the loop runs it.
Arrive(k) ==
    /\ Len(ready) < MaxReady
    /\ ready' = Append(ready, ReadyCall(k))
    /\ ret' = NoRet
    /\ UNCHANGED <<now, _qa_chain_cache, index, chains, call>>
    /\ UNCHANGED <<workerVars, batcherVars, ingestVars, rerankVars, chainVars, requestVars>>

\* worker.py:257-270 (ingest_repository_job, reindex_repository_job) and
\* routers/repos.py:92: create_vector_db has written the vector store of a
\* repository, for the first time or again.  Nothing here touches the cache.
Reindex(k) ==
    /\ index[k] < MaxIndexVersion
    /\ index' = [index EXCEPT ![k] = @ + 1]
    /\ ret' = NoRet
    /\ UNCHANGED <<now, _qa_chain_cache, chains, ready, call>>
    /\ UNCHANGED <<workerVars, batcherVars, ingestVars, rerankVars, chainVars, requestVars>>

\* rag_engine.py:158-167: the loop runs the first waiting call; the key is
\* cached and not expired.
GetHit ==
    /\ LoopFree /\ ready # <<>>
    /\ LET k == Head(ready).key IN
       /\ Found(_qa_chain_cache, k, now) = "hit"
       /\ _qa_chain_cache' =
             SetItem(_qa_chain_cache, k, Item(_qa_chain_cache, k).chain, now)
       /\ ret' = GetRet(k, Some(Item(_qa_chain_cache, k).chain), "hit",
                        None, Head(ready).saw)
    /\ ready' = Tail(ready)
    /\ UNCHANGED <<now, index, chains, call>>
    /\ UNCHANGED <<workerVars, batcherVars, ingestVars, rerankVars, chainVars, requestVars>>

\* rag_engine.py:158-173, 204-216: the loop runs the first waiting call;
\* the key is not cached, or its entry is expired and deleted; get_qa_chain
\* starts and loads the vector store (ok: FAISS.load_local does not raise).
GetMiss(ok) ==
    /\ LoopFree /\ ready # <<>>
    /\ chains < MaxBuilds
    /\ LET k == Head(ready).key IN
       /\ Found(_qa_chain_cache, k, now) # "hit"
       /\ _qa_chain_cache' = Del(_qa_chain_cache, k)
       /\ call' = Some([key |-> k, current_time |-> now,
                        found |-> Found(_qa_chain_cache, k, now),
                        loaded |-> IF Exists(k) /\ ok
                                   THEN Some(index[k]) ELSE None,
                        saw |-> Head(ready).saw])
    /\ ready' = Tail(ready)
    /\ ret' = NoRet
    /\ UNCHANGED <<now, index, chains>>
    /\ UNCHANGED <<workerVars, batcherVars, ingestVars, rerankVars, chainVars, requestVars>>

\* rag_engine.py:173-185, 218-283: get_qa_chain returns a new chain, or
\* None when the store was missing or failed to load; a chain is stored
\* under current_time, the time read when the call began.
BuildEnd ==
    /\ call # None
    /\ LET k == call[1].key
           chain == IF call[1].loaded # None
                    THEN Some(Chain(chains + 1, call[1].loaded[1], now))
                    ELSE None
       IN
       /\ chains' = IF chain # None THEN chains + 1 ELSE chains
       /\ _qa_chain_cache' =
             Stored(_qa_chain_cache, k, chain, call[1].current_time)
       /\ ret' = GetRet(k, chain, call[1].found,
                        IF chain # None /\ Full(_qa_chain_cache)
                        THEN Some(Item(_qa_chain_cache,
                                       OldestKey(_qa_chain_cache)))
                        ELSE None,
                        call[1].saw)
       /\ ready' = [i \in DOMAIN ready |->
                      IF ready[i].key = k /\ chain # None
                      THEN [ready[i] EXCEPT !.saw = chain]
                      ELSE ready[i]]
    /\ call' = None
    /\ UNCHANGED <<now, index>>
    /\ UNCHANGED <<workerVars, batcherVars, ingestVars, rerankVars, chainVars, requestVars>>

\* rag_engine.py:188-195  clear_qa_chain_cache(arg)
Invalidate(arg) ==
    /\ LoopFree
    /\ _qa_chain_cache' = Cleared(_qa_chain_cache, arg)
    /\ ret' = [NoRet EXCEPT !.op = "clear", !.key = arg]
    /\ UNCHANGED <<now, index, chains, ready, call>>
    /\ UNCHANGED <<workerVars, batcherVars, ingestVars, rerankVars, chainVars, requestVars>>

NextCache ==
    \/ TickCache
    \/ \E k \in Paths : Arrive(k)
    \/ \E k \in Paths : Reindex(k)
    \/ GetHit
    \/ \E ok \in BOOLEAN : GetMiss(ok)
    \/ BuildEnd
    \/ \E arg \in ClearArgs : Invalidate(arg)

\* The chain cache, its callers, the clock and the re-indexing jobs.
SpecCache == Init /\ [][NextCache]_vars

----------------------------------------------------------------------------
\* Properties of the chain cache.

\* The keys of the dict.
CachedKeys == {_qa_chain_cache[i].key : i \in DOMAIN _qa_chain_cache}

\* C11: the cache never holds more than QA_CHAIN_CACHE_MAX_SIZE entries
\* (and holds each key once), whatever get and clear calls were made and
\* however requests, builds, re-indexing and the clock interleave.
C11_SizeBounded ==
    /\ Len(_qa_chain_cache) <= QA_CHAIN_CACHE_MAX_SIZE
    /\ Cardinality(CachedKeys) = Len(_qa_chain_cache)

\* C11 witness: a get has just built and stored the chain of one more key
\* than the cache can hold, and the cache is full.
C11_Witness ==
    /\ ret.op = "get" /\ ret.found = "absent"
    /\ ret.chain # None /\ ret.chain[1].id = QA_CHAIN_CACHE_MAX_SIZE + 1
    /\ Len(_qa_chain_cache) = QA_CHAIN_CACHE_MAX_SIZE

\* C12: when get stores the chain of a new key while the cache holds
\* QA_CHAIN_CACHE_MAX_SIZE entries, exactly one entry leaves, no entry has
\* an older cached_at (last access) than it, and the others stay as they
\* were; a hit sets the cached_at of its entry to the time of the call and
\* changes nothing else.
C12_EvictsOldestAccess ==
    [][ /\ ( /\ call # None /\ ret'.chain # None
             /\ Len(_qa_chain_cache) = QA_CHAIN_CACHE_MAX_SIZE )
           => \E i \in DOMAIN _qa_chain_cache :
                 /\ \A j \in DOMAIN _qa_chain_cache :
                       _qa_chain_cache[i].cached_at
                          <= _qa_chain_cache[j].cached_at
                 /\ _qa_chain_cache' =
                       Append(Del(_qa_chain_cache, _qa_chain_cache[i].key),
                              Entry(call[1].key, ret'.chain[1],
                                    call[1].current_time))
        /\ (ret'.op = "get" /\ ret'.found = "hit")
           => _qa_chain_cache' =
                 [i \in DOMAIN _qa_chain_cache |->
                    IF _qa_chain_cache[i].key = ret'.key[1]
                    THEN [_qa_chain_cache[i] EXCEPT !.cached_at = now]
                    ELSE _qa_chain_cache[i]]
      ]_vars

\* C12 witness: a get has just evicted an entry, and an entry whose chain
\* was built before the evicted one but was read after it is still cached.
C12_Witness ==
    /\ ret.op = "get" /\ ret.evicted # None
    /\ \E i \in DOMAIN _qa_chain_cache :
          /\ _qa_chain_cache[i].chain.id < ret.evicted[1].chain.id
          /\ _qa_chain_cache[i].cached_at > ret.evicted[1].cached_at

\* The step is the event loop running the first waiting get call.
RunsGet == call = None /\ ready # <<>> /\ ready' = Tail(ready)

\* Seconds between the last access of key k's entry and now.
SinceAccess(k) == (now - Item(_qa_chain_cache, k).cached_at) * TickSeconds

\* C13: a get that returns a chain leaves it cached under the time of the
\* call; a get(key) made less than QA_CHAIN_CACHE_TTL after that time, the
\* entry still being there, returns the same chain object, builds nothing
\* and keeps the entry: the chain of the key is built once.
C13_HitWithinTtl ==
    [][ /\ (ret'.op = "get" /\ ret'.chain # None)
           => /\ Has(_qa_chain_cache', ret'.key[1])
              /\ Item(_qa_chain_cache', ret'.key[1]) =
                    Entry(ret'.key[1], ret'.chain[1],
                          IF ret'.found = "hit" THEN now
                          ELSE call[1].current_time)
        /\ ( /\ RunsGet
             /\ Has(_qa_chain_cache, Head(ready).key)
             /\ SinceAccess(Head(ready).key) < QA_CHAIN_CACHE_TTL )
           => /\ ret'.op = "get" /\ ret'.key = Some(Head(ready).key)
              /\ ret'.chain =
                    Some(Item(_qa_chain_cache, Head(ready).key).chain)
              /\ chains' = chains /\ call' = None
              /\ Has(_qa_chain_cache', Head(ready).key)
      ]_vars

\* C13 witness: at a later tick than 0 a get has just returned the only
\* chain ever built, from the cache.
C13_Witness ==
    /\ ret.op = "get" /\ ret.found = "hit"
    /\ ret.chain # None /\ ret.chain[1].id = 1
    /\ chains = 1 /\ now > 0

C16_NoStaleChainAfterReindex ==
    (ret.op = "get" /\ ret.chain # None)
    => ret.chain[1].version = index[ret.key[1]]

\* C17: clear_qa_chain_cache(key) removes the entry of key, whatever string
\* key is, and leaves every other entry as it was; without a key it
\* removes every entry; either way the key is cached no more, so that the
\* next get for it builds.
C17_ClearRemovesExactlyKey ==
    [][ ret'.op = "clear"
        => IF ret'.key = None
           THEN _qa_chain_cache' = <<>>
           ELSE /\ _qa_chain_cache' = Del(_qa_chain_cache, ret'.key[1])
                /\ ~Has(_qa_chain_cache', ret'.key[1])
      ]_vars

\* C18: when the vector store of the key is missing or fails to load, get
\* returns None to its caller, builds no chain, leaves the key uncached,
\* and the call has removed no entry but the key's own expired one.
C18_FailedBuildLeavesCache ==
    [][ /\ (RunsGet /\ call' # None)
           => /\ _qa_chain_cache' = Del(_qa_chain_cache, Head(ready).key)
              /\ ~Exists(Head(ready).key) => call'[1].loaded = None
        /\ (call # None /\ call' = None /\ call[1].loaded = None)
           => /\ ret'.op = "get" /\ ret'.key = Some(call[1].key)
              /\ ret'.chain = None
              /\ chains' = chains
              /\ _qa_chain_cache' = _qa_chain_cache
              /\ ~Has(_qa_chain_cache', call[1].key)
      ]_vars

\* C18 witness: a get has just returned None for a path whose store is on
\* disk (it failed to load) while the cache is full.
C18_Witness ==
    /\ ret.op = "get" /\ ret.chain = None
    /\ Exists(ret.key[1])
    /\ Len(_qa_chain_cache) = QA_CHAIN_CACHE_MAX_SIZE

----------------------------------------------------------------------------
\* rag_engine.py: create_vector_db.
\*
\* The function runs in one thread from call to return; its steps are the
\* FAISS.from_documents calls (each embeds one batch) and the final save.
\* cvd holds its locals: texts, the loop index i, attempt, db (the chunks
\* the FAISS index holds, in order), and as history the batches given to
\* from_documents, whether a call failed, whether a batch failed on every
\* attempt, whether a call raised an error that is no quota error, the
\* backoff waits slept (rag_engine.py:108, 127) and what the call wrote to
\* output_path.  The delay between batches (rag_engine.py:114) changes
\* nothing the function reads.

Min(a, b) == IF a < b THEN a ELSE b

\* rag_engine.py:83  `len(texts) > EMBEDDING_BATCH_SIZE`
Batched(texts) == Len(texts) > EMBEDDING_BATCH_SIZE

\* rag_engine.py:88  `texts[i:i + EMBEDDING_BATCH_SIZE]` (i counts from 0);
\* the whole list on the single-batch path (rag_engine.py:120).
Batch(texts, i) ==
    IF Batched(texts)
    THEN SubSeq(texts, i + 1, Min(i + EMBEDDING_BATCH_SIZE, Len(texts)))
    ELSE texts

\* Mutant of Merged: the new batch replaces db, merge_from is not called.
MergedReplaces(db, batch) == Some(batch)

\* rag_engine.py:97-101, 120: db after from_documents(batch) succeeded.
Merged(db, batch) == IF db = None THEN Some(batch) ELSE Some(db[1] \o batch)

\* rag_engine.py:87: the loop index after the batch at i, and the state the
\* call is in then: the next batch, or the save after the last one.
AfterBatch(c) ==
    IF Batched(c.texts) /\ c.i + EMBEDDING_BATCH_SIZE < Len(c.texts)
    THEN [c EXCEPT !.i = c.i + EMBEDDING_BATCH_SIZE, !.attempt = 0]
    ELSE [c EXCEPT !.pc = "save"]

\* rag_engine.py:68-80: the call; an empty list returns None at once.
CallCreateVectorDb(n) ==
    /\ cvd.pc \in {"idle", "returned", "raised"}
    /\ cvd' = [NoCall EXCEPT !.texts = Texts(n),
                             !.pc = IF n = 0 THEN "returned" ELSE "embed"]
    /\ UNCHANGED <<now, workerVars, cacheVars, ingestVars, rerankVars, chainVars, requestVars>>

\* rag_engine.py:96-102, 119-121: from_documents returns; the batch is in
\* db and the retry loop is left.
EmbedOk ==
    /\ cvd.pc = "embed"
    /\ LET batch == Batch(cvd.texts, cvd.i) IN
       cvd' = AfterBatch([cvd EXCEPT !.db = Merged(cvd.db, batch),
                                     !.calls = Append(@, batch)])
    /\ UNCHANGED <<now, workerVars, cacheVars, ingestVars, rerankVars, chainVars, requestVars>>

\* rag_engine.py:103-108, 122-127, 130-131: from_documents raises a quota
\* error; the function sleeps and tries again.  When the attempts are used
\* up, the single-batch path raises (for ... else), the batched path has no
\* else clause and goes on after the loop.
EmbedTransient ==
    /\ cvd.pc = "embed"
    /\ LET c == [cvd EXCEPT !.calls = Append(@, Batch(cvd.texts, cvd.i)),
                            !.failed = TRUE,
                            !.waits = Append(@, (cvd.attempt + 1)
                                                   * BackoffSeconds),
                            !.attempt = @ + 1]
       IN  cvd' = IF c.attempt < max_retries THEN c
                  ELSE IF Batched(cvd.texts)
                       THEN AfterBatch([c EXCEPT !.exhausted = TRUE])
                       ELSE [c EXCEPT !.exhausted = TRUE, !.pc = "raised"]
    /\ UNCHANGED <<now, workerVars, cacheVars, ingestVars, rerankVars, chainVars, requestVars>>

\* Mutant of Reraised: the error is swallowed and the loop goes on.
Swallowed(c) == AfterBatch(c)

\* rag_engine.py:110, 129  `raise e`: the exception leaves the function.
Reraised(c) == [c EXCEPT !.pc = "raised"]

\* rag_engine.py:109-110, 128-129: from_documents raises another error,
\* which is raised again.
EmbedFatal ==
    /\ cvd.pc = "embed"
    /\ cvd' = Reraised([cvd EXCEPT
                          !.calls = Append(@, Batch(cvd.texts, cvd.i)),
                          !.failed = TRUE, !.fatal = TRUE])
    /\ UNCHANGED <<now, workerVars, cacheVars, ingestVars, rerankVars, chainVars, requestVars>>

\* rag_engine.py:134-143: db.save_local (AttributeError when db is None),
\* texts.pkl, `return db`.
Save ==
    /\ cvd.pc = "save"
    /\ cvd' = IF cvd.db = None
              THEN [cvd EXCEPT !.pc = "raised"]
              ELSE [cvd EXCEPT !.pc = "returned",
                               !.saved = Some([index |-> cvd.db[1],
                                               texts |-> cvd.texts])]
    /\ UNCHANGED <<now, workerVars, cacheVars, ingestVars, rerankVars, chainVars, requestVars>>

NextBatcher ==
    \/ \E n \in 0..MaxChunks : CallCreateVectorDb(n)
    \/ EmbedOk
    \/ EmbedTransient
    \/ EmbedFatal
    \/ Save

\* One thread calling create_vector_db again and again.
SpecBatcher == Init /\ [][NextBatcher]_vars

----------------------------------------------------------------------------
\* Properties of create_vector_db.

\* C19: once a batch has failed with a quota error on every one of its
\* max_retries attempts the call has raised (it embeds no later batch, saves
\* nothing and does not return); and a call that returned for a non-empty
\* list returned an index that holds every chunk.
C19_ExhaustedRetriesRaise ==
    /\ cvd.exhausted => cvd.pc = "raised"
    /\ (cvd.pc = "returned" /\ cvd.texts # <<>>) => cvd.db = Some(cvd.texts)

\* ceil(n / b)
CeilDiv(n, b) == (n + b - 1) \div b

\* C20: a call for N > 0 chunks that returned without a failed embedding
\* call made ceil(N / EMBEDDING_BATCH_SIZE) from_documents calls, the c-th
\* over the c-th run of at most EMBEDDING_BATCH_SIZE consecutive chunks,
\* and the index it returned holds exactly the N chunks, in input order.
C20_BatchesCoverInput ==
    (cvd.pc = "returned" /\ cvd.texts # <<>> /\ ~cvd.failed)
    => LET N == Len(cvd.texts) IN
       /\ Len(cvd.calls) = CeilDiv(N, EMBEDDING_BATCH_SIZE)
       /\ \A c \in DOMAIN cvd.calls :
             /\ Len(cvd.calls[c]) <= EMBEDDING_BATCH_SIZE
             /\ cvd.calls[c] =
                   SubSeq(cvd.texts, (c - 1) * EMBEDDING_BATCH_SIZE + 1,
                          Min(c * EMBEDDING_BATCH_SIZE, N))
       /\ cvd.db = Some(cvd.texts)

\* C20 witness: a call returned without a failure after three batches, the
\* last one shorter than EMBEDDING_BATCH_SIZE.
C20_Witness ==
    /\ cvd.pc = "returned" /\ ~cvd.failed
    /\ Len(cvd.calls) = 3
    /\ Len(cvd.calls[3]) < EMBEDDING_BATCH_SIZE
    /\ cvd.db = Some(cvd.texts)

\* C21: when an embedding call raises an error that is no quota error,
\* create_vector_db raises in that same step: the batch is not tried again,
\* no backoff wait is slept, the index in memory is as before and nothing
\* has been written; after that the call makes no further step (no later
\* batch, no save).
C21_FatalPropagatesAtOnce ==
    [][ /\ (cvd'.fatal /\ ~cvd.fatal)
           => /\ cvd'.pc = "raised"
              /\ cvd'.calls = Append(cvd.calls, Batch(cvd.texts, cvd.i))
              /\ cvd'.i = cvd.i /\ cvd'.attempt = cvd.attempt
              /\ cvd'.waits = cvd.waits /\ cvd'.db = cvd.db
              /\ cvd'.saved = None
        /\ cvd.fatal
           => \/ cvd' = cvd
              \/ cvd'.calls = <<>> /\ ~cvd'.fatal
      ]_vars

\* C21 witness: the call has raised on a fatal error of its second batch,
\* after one quota error and one wait on that batch; the first batch is in
\* the index in memory and nothing is written.
C21_Witness ==
    /\ cvd.pc = "raised" /\ cvd.fatal
    /\ cvd.i = EMBEDDING_BATCH_SIZE /\ cvd.attempt = 1
    /\ cvd.waits = <<BackoffSeconds>>
    /\ cvd.db = Some(Batch(cvd.texts, 0))
    /\ cvd.saved = None

----------------------------------------------------------------------------
\* The job handlers ingest_repository_job and reindex_repository_job
\* (worker.py:192-298), run by the worker's loops.
\*
\* A handler suspends twice, in `await loop.run_in_executor(...)`: while a
\* pool thread runs ingest.load_and_index_repo and while a pool thread runs
\* rag_engine.create_vector_db.  The code before, between and after the two
\* awaits runs on the event loop.  Every handler has its own database
\* session; repos holds the committed rows.  A commit is taken to succeed.

\* The enqueue calls of this specification: an ingest and a re-index of one
\* repository, and a re-index of another.
IngestCalls ==
    Calls \cup { <<"reindex_repository", <<"repo1", "user1">>>> }

\* The repo_id argument of a job (worker.py:193-198 and worker.py:285).
RepoOf(job) ==
    IF job.func_name = "ingest_repository" THEN job.args[2] ELSE job.args[1]

\* worker.py:197, 296: force_reindex is False for the ingest job as the
\* worker calls it and True for the re-index job.
ForceReindex(job) == job.func_name = "reindex_repository"

\* What ingest.load_and_index_repo(url, repo_path, cache_path, force) does
\* (ingest.py:171-223): it returns None when the cache says the repository
\* is unchanged and force is off, [] when the clone raised, the chunks
\* otherwise; or it raises (pull, rmtree, file processing).
LoadOutcomes == {"unchanged", "clone_failed", "chunks", "raise"}

\* What rag_engine.create_vector_db(chunks, vector_path) does
\* (rag_engine.py:68-143): it returns, or it raises.
EmbedOutcomes == {"return", "raise"}

\* The exceptions the handlers raise.
NotFound == [cls |-> "Exception", args |-> <<"Repository not found">>]
IngestError == [cls |-> "Exception", args |-> <<"ingestion failed">>]

\* The jobs whose handler is suspended in the executor call that runs
\* create_vector_db on the vector store of repository r.
Embedding(r) ==
    { j \in DOMAIN jobs : runs[j].pc = "embedding" /\ RepoOf(jobs[j]) = r }

\* worker.py:214-249 (and 289-296 for the re-index job): the handler the
\* loop has called looks the repository up, raises ValueError without it,
\* else commits status "cloning", then "indexing", and hands
\* load_and_index_repo to the executor.
IngestBegin(j) ==
    /\ j \in UNION {loops[b].busy : b \in DOMAIN loops}
    /\ runs[j].pc = "none"
    /\ LET r == RepoOf(jobs[j]) IN
       IF r \notin DOMAIN repos
       THEN /\ runs' = [runs EXCEPT ![j].pc = "raised",
                                    ![j].exc = Some(NotFound)]
            /\ UNCHANGED repos
       ELSE /\ repos' = [repos EXCEPT ![r] = "indexing"]
            /\ runs' = [runs EXCEPT ![j].pc = "loading"]
    /\ lastOp' = Step
    /\ UNCHANGED <<now, _handlers, _queue, _jobs, jobs, _running,
                   _active_workers, _worker_tasks, loops, stops, invoked>>
    /\ UNCHANGED <<cacheVars, batcherVars, rerankVars, chainVars, requestVars>>

\* worker.py:246-261, 271-279: what the handler does with the outcome of
\* load_and_index_repo.  Only `chunks is None` is tested: [] goes on to
\* create_vector_db like any list.
AfterLoad(o) ==
    IF o = "unchanged" THEN "skipped"
    ELSE IF o = "raise" THEN "failed" ELSE "embed"

\* worker.py:246-261, 271-279: load_and_index_repo has ended with outcome o
\* and the handler resumes.
LoadDone(j, o) ==
    /\ runs[j].pc = "loading"
    /\ o = "unchanged" => ~ForceReindex(jobs[j])
    /\ LET r == RepoOf(jobs[j]) IN
       CASE AfterLoad(o) = "skipped" ->
              /\ repos' = [repos EXCEPT ![r] = "ready"]
              /\ runs' = [runs EXCEPT ![j].pc = "returned", ![j].load = o,
                                      ![j].result = Some("skipped")]
         [] AfterLoad(o) = "failed" ->
              /\ repos' = [repos EXCEPT ![r] = "failed"]
              /\ runs' = [runs EXCEPT ![j].pc = "raised", ![j].load = o,
                                      ![j].exc = Some(IngestError)]
         [] AfterLoad(o) = "embed" ->
              /\ runs' = [runs EXCEPT ![j].pc = "embedding", ![j].load = o]
              /\ UNCHANGED repos
    /\ lastOp' = Step
    /\ UNCHANGED <<now, _handlers, _queue, _jobs, jobs, _running,
                   _active_workers, _worker_tasks, loops, stops, invoked>>
    /\ UNCHANGED <<cacheVars, batcherVars, rerankVars, chainVars, requestVars>>

\* worker.py:258-279: create_vector_db has ended with outcome o and the
\* handler resumes.  With no chunks create_vector_db returns None before it
\* embeds anything (rag_engine.py:72-74).
EmbedDone(j, o) ==
    /\ runs[j].pc = "embedding"
    /\ runs[j].load = "clone_failed" => o = "return"
    /\ LET r == RepoOf(jobs[j]) IN
       IF o = "return"
       THEN /\ repos' = [repos EXCEPT ![r] = "ready"]
            /\ runs' = [runs EXCEPT ![j].pc = "returned",
                                    ![j].result = Some("success")]
       ELSE /\ repos' = [repos EXCEPT ![r] = "failed"]
            /\ runs' = [runs EXCEPT ![j].pc = "raised",
                                    ![j].exc = Some(IngestError)]
    /\ lastOp' = Step
    /\ UNCHANGED <<now, _handlers, _queue, _jobs, jobs, _running,
                   _active_workers, _worker_tasks, loops, stops, invoked>>
    /\ UNCHANGED <<cacheVars, batcherVars, rerankVars, chainVars, requestVars>>

\* worker.py:255, 269 and 114-116: the handler returns to _process_job.
IngestReturn(b, j) ==
    /\ runs[j].pc = "returned"
    /\ HandlerReturn(b, j, runs[j].result[1])

\* worker.py:218, 279 and 117-119: the handler raises into _process_job.
IngestRaise(b, j) ==
    /\ runs[j].pc = "raised"
    /\ HandlerRaise(b, j, runs[j].exc[1])

NextIngest ==
    \/ \E n \in HandlerNames : Register(n)
    \/ \E c \in IngestCalls : Enqueue(c[1], c[2])
    \/ \E id \in AskedIds : Retry(id)
    \/ Start
    \/ \E b \in DOMAIN loops : Dispatch(b)
    \/ \E j \in DOMAIN jobs : IngestBegin(j)
    \/ \E j \in DOMAIN jobs, o \in LoadOutcomes : LoadDone(j, o)
    \/ \E j \in DOMAIN jobs, o \in EmbedOutcomes : EmbedDone(j, o)
    \/ \E b \in DOMAIN loops, j \in DOMAIN jobs : IngestReturn(b, j)
    \/ \E b \in DOMAIN loops, j \in DOMAIN jobs : IngestRaise(b, j)

\* The worker running the ingestion handlers.
SpecIngest == Init /\ [][NextIngest]_vars

----------------------------------------------------------------------------
\* Properties of the ingestion job handlers.

\* C22: ingestion into one repository's vector store is serialized: no two
\* jobs that target the same repository are in create_vector_db at the
\* same time.
C22_SameCorpusSerialized ==
    \A r \in Repositories : Cardinality(Embedding(r)) <= 1

\* The jobs whose handler has been called and whose repository no other
\* job targets.
RanAlone ==
    { j \in DOMAIN jobs :
        /\ runs[j].pc # "none"
        /\ \A i \in DOMAIN jobs \ {j} : RepoOf(jobs[i]) # RepoOf(jobs[j]) }

\* Ingestion failed inside the handler of job j: the clone failed, or
\* load_and_index_repo or create_vector_db raised.
IngestionFailed(j) ==
    \/ runs[j].load \in {"clone_failed", "raise"}
    \/ runs[j].exc = Some(IngestError)

\* C23: once a job on an existing repository is terminal, the repository
\* is not in cloning or indexing, it is ready only if the job Completed,
\* and if ingestion failed inside the handler the repository is failed and
\* the job is Failed with its error recorded.
C23_FailureIsRecorded ==
    \A j \in RanAlone :
        jobs[j].status \in Terminal =>
            LET status == repos[RepoOf(jobs[j])] IN
            /\ status \notin {"cloning", "indexing"}
            /\ status = "ready" => jobs[j].status = COMPLETED
            /\ IngestionFailed(j) =>
                  /\ status = "failed"
                  /\ jobs[j].status = FAILED
                  /\ HasError(jobs[j])

----------------------------------------------------------------------------
\* reranker.reciprocal_rank_fusion  (reranker.py:143-184)
\*
\* A content is a sequence of characters, a metadata dict is a name, and a
\* document is the tuple (content, metadata, score).  The float scores the
\* function adds up are kept exact: a score is an integer number of units of
\* 1 / Den(k), where Den(k) is a common multiple of every k + rank.

\* reranker.py:145  `k: int = 60`
RrfK == 60

\* The contents of the documents: X2 is X with one character more, so the
\* two share their first KeyChars characters; Y differs from both.
ContentX == [i \in 1..KeyChars |-> "x"]
ContentX2 == Append(ContentX, "2")
ContentY == [i \in 1..KeyChars |-> "y"]

\* The documents the retrievers return.
FusionDocs ==
    { <<ContentX, "m1", 0>>, <<ContentX2, "m2", 0>>, <<ContentY, "m1", 0>> }

\* The sequences of at most n elements of S.
SeqUpTo(S, n) == UNION {[1..m -> S] : m \in 0..n}

\* The arguments of the calls.
FusionRankings == SeqUpTo(SeqUpTo(FusionDocs, MaxRank), MaxLists)
FusionKs == {1, RrfK}
FusionTopNs == 0..MaxTopN

\* The common denominator of the scores for constant k.
RECURSIVE DenUpTo(_, _)
DenUpTo(k, r) == IF r = 0 THEN 1 ELSE (k + r) * DenUpTo(k, r - 1)
Den(k) == DenUpTo(k, MaxRank)

\* reranker.py:169  `doc_key = content[:500]`
DocKey(content) == SubSeq(content, 1, Min(KeyChars, Len(content)))

\* reranker.py:176  `1.0 / (k + rank)`, in units of 1 / Den(k).
Term(k, rank) == Den(k) \div (k + rank)

\* Mutant of Accumulated: the contribution replaces the score.
Overwritten(score, term) == term

\* reranker.py:176  `rrf_scores[doc_key] += ...`
Accumulated(score, term) == score + term

\* Mutant of AddDoc: the content and metadata of a key are those of its
\* last occurrence.
AddDocKeepsLast(acc, doc, rank, k) ==
    LET key == DocKey(doc[1]) IN
    IF \E i \in DOMAIN acc : acc[i].key = key
    THEN LET i == CHOOSE i \in DOMAIN acc : acc[i].key = key IN
         [acc EXCEPT ![i].score = Accumulated(@, Term(k, rank)),
                     ![i].content = doc[1], ![i].metadata = doc[2]]
    ELSE Append(acc, [key |-> key, content |-> doc[1], metadata |-> doc[2],
                      score |-> Accumulated(0, Term(k, rank))])

\* reranker.py:169-176: one document of a ranked list is added to the two
\* dicts rrf_scores and doc_metadata, which get their keys together and so
\* are one sequence of entries, in insertion order.  The content and the
\* metadata of a key are those of its first occurrence.
AddDoc(acc, doc, rank, k) ==
    LET key == DocKey(doc[1]) IN
    IF \E i \in DOMAIN acc : acc[i].key = key
    THEN LET i == CHOOSE i \in DOMAIN acc : acc[i].key = key IN
         [acc EXCEPT ![i].score = Accumulated(@, Term(k, rank))]
    ELSE Append(acc, [key |-> key, content |-> doc[1], metadata |-> doc[2],
                      score |-> Accumulated(0, Term(k, rank))])

\* reranker.py:167  `for rank, (...) in enumerate(ranking, start=1)`
RECURSIVE AddRanking(_, _, _, _)
AddRanking(acc, ranking, rank, k) ==
    IF rank > Len(ranking) THEN acc
    ELSE AddRanking(AddDoc(acc, ranking[rank], rank, k), ranking, rank + 1, k)

\* reranker.py:166  `for ranking in rankings`
RECURSIVE AddRankings(_, _, _)
AddRankings(acc, rankings, k) ==
    IF rankings = <<>> THEN acc
    ELSE AddRankings(AddRanking(acc, Head(rankings), 1, k), Tail(rankings), k)

\* Mutant of Earlier: the order of equal keys differs from one call to the
\* next, as it would with an unordered container.
EarlierFlips(i, j) == IF fusion.out = None THEN i < j ELSE i > j

\* sorted() and list.sort() are stable, with reverse=True too: of two
\* elements with equal keys the one that comes first in the input comes
\* first in the output.
Earlier(i, j) == i < j

\* The place of element i after a sort with reverse=True, where keys[j]
\* is the sort key of element j.
PlaceDesc(keys, i) ==
    1 + Cardinality({j \in DOMAIN keys : keys[j] > keys[i]})
      + Cardinality({j \in DOMAIN keys :
                        keys[j] = keys[i] /\ j # i /\ Earlier(j, i)})

\* sorted(s, key=..., reverse=True), where keys[j] is the key of s[j].
SortedDesc(s, keys) ==
    [p \in DOMAIN s |-> s[CHOOSE i \in DOMAIN s : PlaceDesc(keys, i) = p]]

\* s[:n] for n >= 0
Prefix(s, n) == SubSeq(s, 1, Min(n, Len(s)))

\* reranker.py:163-184; the sort key is the score, `key=lambda x: x[1]`.
ReciprocalRankFusion(rankings, k, top_n) ==
    LET rrf_scores == AddRankings(<<>>, rankings, k)
        sorted_docs ==
            Prefix(SortedDesc(rrf_scores,
                              [i \in DOMAIN rrf_scores |-> rrf_scores[i].score]),
                   top_n)
    IN  [i \in DOMAIN sorted_docs |->
            <<sorted_docs[i].content, sorted_docs[i].metadata,
              sorted_docs[i].score>>]

\* The lists of rankings in the order p.
Reordered(rankings, p) == [i \in DOMAIN rankings |-> rankings[p[i]]]

\* reciprocal_rank_fusion(rankings, k, top_n) is called.  The function
\* keeps nothing from one call to the next, so the model follows one call
\* and its repetitions.
Fuse(rankings, k, top_n) ==
    /\ fusion = NoFusion
    /\ fusion' = [rankings |-> rankings, k |-> k, top_n |-> top_n,
                  out |-> Some(ReciprocalRankFusion(rankings, k, top_n)),
                  again |-> None, order |-> <<>>, permuted |-> None]
    /\ UNCHANGED <<now, workerVars, cacheVars, batcherVars, ingestVars, rr,
                   chainVars, requestVars>>

\* The caller calls again with the same arguments.
FuseAgain ==
    /\ fusion.out # None
    /\ fusion.again = None
    /\ fusion' = [fusion EXCEPT !.again =
                    Some(ReciprocalRankFusion(fusion.rankings, fusion.k,
                                              fusion.top_n))]
    /\ UNCHANGED <<now, workerVars, cacheVars, batcherVars, ingestVars, rr,
                   chainVars, requestVars>>

\* The caller calls with the same ranked lists supplied in another order.
FusePermuted(p) ==
    /\ fusion.out # None
    /\ fusion.permuted = None
    /\ p \in Permutations(DOMAIN fusion.rankings)
    /\ \E i \in DOMAIN p : p[i] # i
    /\ fusion' = [fusion EXCEPT
                    !.order = p,
                    !.permuted =
                       Some(ReciprocalRankFusion(
                               Reordered(fusion.rankings, p),
                               fusion.k, fusion.top_n))]
    /\ UNCHANGED <<now, workerVars, cacheVars, batcherVars, ingestVars, rr,
                   chainVars, requestVars>>

NextFusion ==
    \/ \E rankings \in FusionRankings, k \in FusionKs, top_n \in FusionTopNs :
          Fuse(rankings, k, top_n)
    \/ FuseAgain
    \/ \E p \in [1..MaxLists -> 1..MaxLists] : FusePermuted(p)

SpecFusion == Init /\ [][NextFusion]_vars

----------------------------------------------------------------------------
\* Properties of reciprocal_rank_fusion.

\* The places (list, rank) of the rankings at which a key occurs.
Occurrences(rankings, key) ==
    { <<l, r>> \in (1..MaxLists) \X (1..MaxRank) :
        /\ l \in DOMAIN rankings
        /\ r \in DOMAIN rankings[l]
        /\ DocKey(rankings[l][r][1]) = key }

\* The sum of 1 / (k + r) over a set of places, in units of 1 / Den(k).
RECURSIVE SumOver(_, _)
SumOver(places, k) ==
    IF places = {} THEN 0
    ELSE LET pl == CHOOSE pl \in places : TRUE IN
         Den(k) \div (k + pl[2]) + SumOver(places \ {pl}, k)

\* C24: every fused key scores the sum of 1 / (k + r) over the places
\* where it occurs; a document that occurs at ranks r1 and r2 of two lists
\* scores strictly more than one that occurs once, at rank r1 or r2.
C24_ScoreIsSumOfReciprocals ==
    fusion.out # None =>
        LET out == fusion.out[1]
            occ(d) == Occurrences(fusion.rankings, DocKey(d[1]))
        IN
        /\ \A r \in 1..MaxRank : (fusion.k + r) * Term(fusion.k, r) = Den(fusion.k)
        /\ \A i \in DOMAIN out : out[i][3] = SumOver(occ(out[i]), fusion.k)
        /\ \A i, j \in DOMAIN out :
              \A a, b \in occ(out[i]) :
                 ( /\ occ(out[i]) = {a, b} /\ a[1] # b[1]
                   /\ Cardinality(occ(out[j])) = 1
                   /\ \E c \in occ(out[j]) : c[2] \in {a[2], b[2]} )
                 => out[i][3] > out[j][3]

\* A document at ranks 2 and 1 of two lists and a document at rank 1 of one
\* list are both returned, for k = 60.
C24_Witness ==
    /\ fusion.out # None
    /\ fusion.k = RrfK
    /\ fusion.rankings = << <<<<ContentX, "m1", 0>>, <<ContentY, "m1", 0>>>>,
                            <<<<ContentY, "m1", 0>>>> >>
    /\ Len(fusion.out[1]) = 2
    /\ fusion.out[1][1][1] = ContentY
    /\ fusion.out[1][1][3] = Term(RrfK, 1) + Term(RrfK, 2)
    /\ fusion.out[1][2][3] = Term(RrfK, 1)

\* C25: the result for the ranked lists supplied in another order is the
\* result for the lists as first supplied: the same documents, contents,
\* metadata, scores and order.
C25_OrderOfListsIsIrrelevant ==
    fusion.permuted # None => fusion.permuted = fusion.out

----------------------------------------------------------------------------
\* reranker.rerank_documents and get_reranker  (reranker.py:34-140)
\*
\* Scores are numbers; the model takes them from small sets of integers.

\* The candidates: document i has its own content and metadata.
DocNames == <<"d1", "d2", "d3", "d4", "d5">>
OriginalScores == {1, 2}
Candidates ==
    UNION { { [i \in 1..n |-> <<DocNames[i], i, sc[i]>>] :
                sc \in [1..n -> OriginalScores] } : n \in 0..MaxDocs }

\* The other arguments: top_k, and min_score (0.0 by default).
TopKs == 0..MaxTopK
MinScores == {0, 2}

\* What get_reranker() meets (reranker.py:45-57): sentence-transformers is
\* not installed, CrossEncoder(...) raises, or the model is there (loaded
\* now or by an earlier call).
Models == {"not_installed", "load_fails", "loaded"}

\* reranker.py:45-57: get_reranker() returns None or the model.
GetReranker(model) == IF model = "loaded" THEN Some(model) ELSE None

\* What reranker.predict(pairs) does for n pairs: it raises, or it returns
\* an array of scores, one per pair or one short.
ModelScores == {1, 2, 3}
Predictions(n) ==
    {[raised |-> TRUE, scores |-> <<>>]}
    \cup { [raised |-> FALSE, scores |-> sc] :
             sc \in [1..n -> ModelScores] \cup [1..(n - 1) -> ModelScores] }

\* class RankedDocument
RankedDocument(content, metadata, original_score, rerank_score, final_rank) ==
    [content |-> content, metadata |-> metadata,
     original_score |-> original_score, rerank_score |-> rerank_score,
     final_rank |-> final_rank]

\* `key=lambda x: x[2]`: the scores of (content, metadata, score) tuples.
OriginalScore(documents) == [i \in DOMAIN documents |-> documents[i][3]]

\* Mutant of FallbackNoModel: the candidates are not sorted.
FallbackUnsorted(documents, top_k) ==
    LET kept == Prefix(documents, top_k) IN
    [i \in DOMAIN kept |->
        RankedDocument(kept[i][1], kept[i][2], kept[i][3], kept[i][3],
                       (i - 1) + 1)]

\* reranker.py:86-95: the result without a model.  enumerate counts from 0
\* and final_rank is i + 1.
FallbackNoModel(documents, top_k) ==
    LET kept == Prefix(SortedDesc(documents, OriginalScore(documents)),
                       top_k) IN
    [i \in DOMAIN kept |->
        RankedDocument(kept[i][1], kept[i][2], kept[i][3], kept[i][3],
                       (i - 1) + 1)]

\* Mutant of FallbackOnError: a failed scoring call returns nothing.
FallbackEmpty(documents, top_k) == <<>>

\* reranker.py:128-140: the result when the try block raised.
FallbackOnError(documents, top_k) ==
    LET kept == Prefix(SortedDesc(documents, OriginalScore(documents)),
                       top_k) IN
    [i \in DOMAIN kept |->
        RankedDocument(kept[i][1], kept[i][2], kept[i][3], kept[i][3],
                       (i - 1) + 1)]

\* reranker.py:102-113: what the try block raises before it sorts: the
\* exception of predict, or IndexError from scores[i] when the scores are
\* fewer than the documents; None when it raises nothing.
ScoringError(documents, prediction) ==
    IF prediction.raised
    THEN Some([cls |-> "Exception", args |-> <<"predict failed">>])
    ELSE IF Len(prediction.scores) < Len(documents)
    THEN Some([cls |-> "Exception", args |-> <<"index out of bounds">>])
    ELSE None

\* reranker.py:105-113
Ranked(documents, scores) ==
    [i \in DOMAIN documents |->
        RankedDocument(documents[i][1], documents[i][2], documents[i][3],
                       scores[i], 0)]

\* Mutant of Passes: a score equal to min_score is dropped.
PassesStrictly(score, min_score) == score > min_score

\* reranker.py:121  `doc.rerank_score >= min_score`
Passes(score, min_score) == score >= min_score

\* reranker.py:119-123: the loop over the sorted documents from place i on.
RECURSIVE Selected(_, _, _, _, _)
Selected(ranked, i, result, top_k, min_score) ==
    IF i > Len(ranked) THEN result
    ELSE IF Passes(ranked[i].rerank_score, min_score) /\ Len(result) < top_k
    THEN Selected(ranked, i + 1,
                  Append(result,
                         [ranked[i] EXCEPT !.final_rank = Len(result) + 1]),
                  top_k, min_score)
    ELSE Selected(ranked, i + 1, result, top_k, min_score)

\* What a call gives its caller: a list, or an exception.
Returned(result) == [raised |-> FALSE, result |-> result]
RaisedToCaller == [raised |-> TRUE, result |-> <<>>]

\* reranker.py:78-140, with the model get_reranker() meets and what predict
\* does when it is called.
RerankDocuments(documents, top_k, min_score, model, prediction) ==
    IF documents = <<>> THEN Returned(<<>>)
    ELSE IF GetReranker(model) = None
    THEN Returned(FallbackNoModel(documents, top_k))
    ELSE LET e == ScoringError(documents, prediction) IN
         IF e # None
         THEN IF IsException(e[1])
              THEN Returned(FallbackOnError(documents, top_k))
              ELSE RaisedToCaller
         ELSE LET ranked == Ranked(documents, prediction.scores) IN
              Returned(Selected(
                  SortedDesc(ranked,
                             [i \in DOMAIN ranked |-> ranked[i].rerank_score]),
                  1, <<>>, top_k, min_score))

\* predict is called when there are documents and a model.
Scores(documents, model) == documents # <<>> /\ GetReranker(model) # None

\* rerank_documents(query, documents, top_k, min_score) is called with no
\* model at hand.  The function keeps nothing from one call to the next, so
\* the model follows one call.
RerankUnscored(documents, top_k, min_score, model) ==
    /\ rr = NoRerank
    /\ ~Scores(documents, model)
    /\ rr' = [documents |-> documents, top_k |-> top_k,
              min_score |-> min_score, model |-> model, predict |-> None,
              out |-> Some(RerankDocuments(documents, top_k, min_score,
                                           model, None))]
    /\ UNCHANGED <<now, workerVars, cacheVars, batcherVars, ingestVars,
                   fusion, chainVars, requestVars>>

\* rerank_documents(query, documents, top_k, min_score) is called and calls
\* predict.
RerankScored(documents, top_k, min_score, model, prediction) ==
    /\ rr = NoRerank
    /\ Scores(documents, model)
    /\ prediction \in Predictions(Len(documents))
    /\ rr' = [documents |-> documents, top_k |-> top_k,
              min_score |-> min_score, model |-> model,
              predict |-> Some(prediction),
              out |-> Some(RerankDocuments(documents, top_k, min_score,
                                           model, prediction))]
    /\ UNCHANGED <<now, workerVars, cacheVars, batcherVars, ingestVars,
                   fusion, chainVars, requestVars>>

NextRerank ==
    \/ \E documents \in Candidates, top_k \in TopKs, min_score \in MinScores,
          model \in Models :
          RerankUnscored(documents, top_k, min_score, model)
    \/ \E documents \in Candidates, top_k \in TopKs, min_score \in MinScores,
          model \in Models :
          \E prediction \in Predictions(Len(documents)) :
             RerankScored(documents, top_k, min_score, model, prediction)

SpecRerank == Init /\ [][NextRerank]_vars

----------------------------------------------------------------------------
\* Properties of rerank_documents.

\* The result of the last call, and the number of its candidates.
Result == rr.out[1].result
NDocs == Len(rr.documents)

\* The place in the input of the candidate a returned document was made
\* from (the contents of the candidates differ).
InputOf(d) == CHOOSE i \in DOMAIN rr.documents : rr.documents[i][1] = d.content

\* Every returned document is one of the candidates, with its content,
\* metadata and original score, no candidate is returned twice, and
\* final_rank counts 1, 2, ... down the list.
WellFormed ==
    /\ \A p \in DOMAIN Result :
          /\ \E i \in DOMAIN rr.documents :
                rr.documents[i] = <<Result[p].content, Result[p].metadata,
                                    Result[p].original_score>>
          /\ Result[p].final_rank = p
    /\ \A p, q \in DOMAIN Result :
          Result[p].content = Result[q].content => p = q

\* The candidates that are not returned.
LeftOut ==
    {i \in DOMAIN rr.documents :
        \A p \in DOMAIN Result : Result[p].content # rr.documents[i][1]}

\* C27: with no scoring model, the result is the candidates sorted by
\* original_score descending and cut to top_k, rerank_score equal to
\* original_score, final_rank 1, 2, ..., whatever min_score is; no
\* candidates give an empty list.
C27_FallbackSortsByOriginalScore ==
    rr.out # None =>
        /\ rr.documents = <<>> => rr.out[1] = Returned(<<>>)
        /\ rr.model # "loaded" =>
              /\ ~rr.out[1].raised
              /\ WellFormed
              /\ Len(Result) = Min(rr.top_k, NDocs)
              /\ \A p \in DOMAIN Result :
                    Result[p].rerank_score = Result[p].original_score
              /\ \A p, q \in DOMAIN Result :
                    p < q => Result[p].original_score >= Result[q].original_score
              /\ \A i \in LeftOut : \A p \in DOMAIN Result :
                    rr.documents[i][3] <= Result[p].original_score

\* Without a model, three candidates that are not in order are sorted and
\* cut to top_k = 2, and a document below min_score is returned.
C27_Witness ==
    /\ rr.out # None
    /\ rr.model = "not_installed"
    /\ rr.top_k = 2
    /\ rr.min_score = 2
    /\ NDocs = 3
    /\ rr.documents[1][3] = 1 /\ rr.documents[2][3] = 1 /\ rr.documents[3][3] = 2
    /\ Len(Result) = 2
    /\ Result[1].content = DocNames[3]
    /\ Result[2].content = DocNames[1]
    /\ Result[2].rerank_score < rr.min_score

\* The scoring call failed: the model did not load, predict raised, or
\* predict returned fewer scores than there are candidates.
ScoringFailed ==
    \/ rr.model = "load_fails"
    \/ /\ rr.predict # None
       /\ \/ rr.predict[1].raised
          \/ Len(rr.predict[1].scores) < NDocs

\* C28: rerank_documents never raises, and when scoring failed its result
\* is the result of the path without a model for the same arguments.
C28_ScoringFailureFallsBack ==
    rr.out # None =>
        /\ ~rr.out[1].raised
        /\ ScoringFailed =>
              rr.out[1] = Returned(FallbackNoModel(rr.documents, rr.top_k))

\* predict returned two scores for three candidates and the call returned
\* the two candidates with the best original scores.
C28_Witness ==
    /\ rr.out # None
    /\ rr.model = "loaded"
    /\ NDocs = 3
    /\ rr.predict # None
    /\ ~rr.predict[1].raised
    /\ Len(rr.predict[1].scores) = 2
    /\ rr.top_k = 2
    /\ Len(Result) = 2
    /\ Result[1].rerank_score = Result[1].original_score

\* The call scored its candidates: predict returned a score for each.
ScoredAll ==
    /\ rr.predict # None
    /\ ~rr.predict[1].raised
    /\ Len(rr.predict[1].scores) >= NDocs

\* The candidates whose model score passes min_score.
Passing ==
    {i \in DOMAIN rr.documents : rr.predict[1].scores[i] >= rr.min_score}

\* C29: with a scoring model, the result is in non-increasing order of the
\* model's scores, every returned score is at least min_score, at most
\* top_k documents are returned, they are the best-scoring ones that pass
\* min_score, and final_rank is 1..len(result).
C29_ScoredResultIsTopPassing ==
    (rr.out # None /\ ScoredAll) =>
        /\ ~rr.out[1].raised
        /\ WellFormed
        /\ \A p \in DOMAIN Result :
              /\ Result[p].rerank_score = rr.predict[1].scores[InputOf(Result[p])]
              /\ Result[p].rerank_score >= rr.min_score
        /\ \A p, q \in DOMAIN Result :
              p < q => Result[p].rerank_score >= Result[q].rerank_score
        /\ Len(Result) <= rr.top_k
        /\ Len(Result) = Min(rr.top_k, Cardinality(Passing))
        /\ \A i \in LeftOut \cap Passing : \A p \in DOMAIN Result :
              rr.predict[1].scores[i] <= Result[p].rerank_score

\* Three candidates score 2, 1, 3 with min_score 2 and top_k 2: the third
\* and the first are returned, in that order; with top_k the cut-off.
C29_Witness ==
    /\ rr.out # None
    /\ ScoredAll
    /\ rr.predict[1].scores = <<2, 1, 3>>
    /\ rr.min_score = 2
    /\ rr.top_k = 2
    /\ Len(Result) = 2
    /\ Result[1].content = DocNames[3] /\ Result[1].final_rank = 1
    /\ Result[2].content = DocNames[1] /\ Result[2].final_rank = 2

----------------------------------------------------------------------------
\* rag_engine.get_qa_chain and the files it reads  (rag_engine.py:198-283)
\*
\* Under a vector_db_path there is a directory or not; in it the FAISS index
\* (index.faiss, index.pkl) and the chunk list texts.pkl, each missing,
\* good, or there but unreadable.  create_vector_db writes them one after
\* the other; deleting a repository removes the directory; a file can be
\* lost or damaged from outside the program.  get_embeddings(), get_llm()
\* and ConversationalRetrievalChain.from_llm are taken to succeed.

\* What a lost or damaged file is to its reader.
Damaged == [index |-> {"missing", "corrupt"}, texts |-> {"missing", "unreadable"}]

\* rag_engine.py:80  `os.makedirs(vector_db_path, exist_ok=True)`
Makedirs(k) ==
    /\ ~disk[k].dir
    /\ disk' = [disk EXCEPT ![k].dir = TRUE]
    /\ UNCHANGED <<now, workerVars, cacheVars, batcherVars, ingestVars,
                   rerankVars, qa, requestVars>>

\* rag_engine.py:134  `db.save_local(path)`
SaveLocal(k) ==
    /\ disk[k].dir
    /\ disk' = [disk EXCEPT ![k].index = "ok"]
    /\ UNCHANGED <<now, workerVars, cacheVars, batcherVars, ingestVars,
                   rerankVars, qa, requestVars>>

\* rag_engine.py:137-139  `pickle.dump(texts, f)` into texts.pkl
DumpTexts(k) ==
    /\ disk[k].dir
    /\ disk' = [disk EXCEPT ![k].texts = "ok"]
    /\ UNCHANGED <<now, workerVars, cacheVars, batcherVars, ingestVars,
                   rerankVars, qa, requestVars>>

\* routers/repos.py:279  `shutil.rmtree(repo_dir, ignore_errors=True)`
RemoveRepo(k) ==
    /\ disk[k].dir
    /\ disk' = [disk EXCEPT ![k] = NoFiles]
    /\ UNCHANGED <<now, workerVars, cacheVars, batcherVars, ingestVars,
                   rerankVars, qa, requestVars>>

\* A file under path k is lost or damaged.
Damage(k, file, state) ==
    /\ disk[k].dir
    /\ state \in Damaged[file]
    /\ disk[k][file] # state
    /\ disk' = [disk EXCEPT ![k][file] = state]
    /\ UNCHANGED <<now, workerVars, cacheVars, batcherVars, ingestVars,
                   rerankVars, qa, requestVars>>

\* The chain get_qa_chain builds around a retriever.
Pipeline(retriever) == Some([retriever |-> retriever])

\* Mutant of WithoutTexts: no chain is built without the chunk list.
WithoutTextsFails == None

\* rag_engine.py:234-236: the except branch keeps the FAISS retriever alone.
WithoutTexts == Pipeline("faiss")

\* rag_engine.py:198-283: os.path.exists(vector_db_path) is false
\* (204-206); FAISS.load_local raises (212-216); open() and pickle.load()
\* of texts.pkl succeed (220-233) or raise (234-236).
QaChain(files) ==
    IF ~files.dir THEN None
    ELSE IF files.index # "ok" THEN None
    ELSE IF files.texts = "ok" THEN Pipeline("ensemble")
    ELSE WithoutTexts

\* get_qa_chain(k) is called.
GetQaChain(k) ==
    /\ qa' = [path |-> Some(k), files |-> disk[k], chain |-> QaChain(disk[k])]
    /\ UNCHANGED <<now, workerVars, cacheVars, batcherVars, ingestVars,
                   rerankVars, disk, requestVars>>

NextChain ==
    \/ \E k \in Paths : Makedirs(k)
    \/ \E k \in Paths : SaveLocal(k)
    \/ \E k \in Paths : DumpTexts(k)
    \/ \E k \in Paths : RemoveRepo(k)
    \/ \E k \in Paths, st \in Damaged.index : Damage(k, "index", st)
    \/ \E k \in Paths, st \in Damaged.texts : Damage(k, "texts", st)
    \/ \E k \in Paths : GetQaChain(k)

SpecChain == Init /\ [][NextChain]_vars

----------------------------------------------------------------------------
\* Properties of get_qa_chain.

\* C30: when the index loads and the chunk list is missing or unreadable,
\* a chain is returned, with the dense retriever alone; when the directory
\* is missing or the index does not load, no chain is returned.
C30_DenseOnlyWithoutChunkList ==
    qa.path # None =>
        /\ ( /\ qa.files.dir /\ qa.files.index = "ok"
             /\ qa.files.texts \in {"missing", "unreadable"} )
           => qa.chain = Some([retriever |-> "faiss"])
        /\ (~qa.files.dir \/ qa.files.index # "ok") => qa.chain = None

\* A call found the index and an unreadable chunk list and returned a
\* chain.
C30_Witness ==
    /\ qa.path # None
    /\ qa.files = [dir |-> TRUE, index |-> "ok", texts |-> "unreadable"]
    /\ qa.chain # None

----------------------------------------------------------------------------
\* The worker started once and never stopped, with fair scheduling.
\*
\* asyncio runs every task that is ready: a loop that can take a job takes
\* it (weak fairness of Dispatch), and a handler that terminates ends by
\* returning or by raising (weak fairness of the end of the handler).  The
\* application starts the worker at startup (src/api.py lifespan).

\* The handler of some job in flight ends, one way or the other.
HandlerEnds ==
    \/ \E b \in DOMAIN loops, j \in DOMAIN jobs, v \in ReturnValues :
          HandlerReturn(b, j, v)
    \/ \E b \in DOMAIN loops, j \in DOMAIN jobs, e \in Raised :
          HandlerRaise(b, j, e)

NextLive ==
    \/ \E n \in HandlerNames : Register(n)
    \/ \E c \in Calls : Enqueue(c[1], c[2])
    \/ Start
    \/ \E b \in DOMAIN loops : LoopIdle(b)
    \/ \E b \in DOMAIN loops : Dispatch(b)
    \/ HandlerEnds

SpecLive ==
    /\ Init /\ [][NextLive]_vars
    /\ WF_vars(Start)
    /\ WF_vars(\E b \in DOMAIN loops : Dispatch(b))
    /\ WF_vars(HandlerEnds)

\* C31: with the worker started and never stopped, handlers that terminate
\* and fair scheduling, every enqueued job is eventually Completed or
\* Failed.
C31_EveryJobFinishes ==
    \A j \in 1..MaxJobs :
        (j \in DOMAIN jobs)
           ~> (j \in DOMAIN jobs /\ jobs[j].status \in Terminal)

----------------------------------------------------------------------------
\* More properties of the job worker.

\* C32: the timestamps and the result of every job agree with its status:
\* Pending has neither timestamp, Running has started_at only, Completed
\* and Failed have both, and only a Completed job has a result.
C32_FieldsAgreeWithStatus ==
    \A j \in DOMAIN jobs :
        LET job == jobs[j] IN
        /\ job.status = PENDING =>
              job.started_at = None /\ job.completed_at = None
        /\ job.status = RUNNING =>
              job.started_at # None /\ job.completed_at = None
        /\ job.status \in Terminal =>
              job.started_at # None /\ job.completed_at # None
        /\ job.result # None => job.status = COMPLETED

\* C33: a job is in the queue exactly when it is Pending, at most once;
\* every queued job is in the job table; and _active_workers is the number
\* of Running jobs, between 0 and W.
C33_QueueAndCounterAgree ==
    /\ \A j \in DOMAIN jobs :
          (j \in Range(_queue)) <=> (jobs[j].status = PENDING)
    /\ \A p, q \in DOMAIN _queue : _queue[p] = _queue[q] => p = q
    /\ Range(_queue) \subseteq _jobs
    /\ _active_workers = Cardinality(RunningJobs)
    /\ _active_workers >= 0 /\ _active_workers <= W

----------------------------------------------------------------------------
\* More properties of reciprocal_rank_fusion.

\* The first place, in input order (list by list, rank by rank), at which
\* a key occurs in the rankings.
FirstPlace(rankings, key) ==
    CHOOSE pl \in Occurrences(rankings, key) :
        \A other \in Occurrences(rankings, key) :
            \/ pl[1] < other[1]
            \/ pl[1] = other[1] /\ pl[2] <= other[2]

\* C34: the result has at most top_n entries, one entry per key at most,
\* scores in non-increasing order, for each key the content and metadata of
\* the key's first occurrence in input order, and no entry when there are
\* no rankings.
C34_FusedListIsWellFormed ==
    fusion.out # None =>
        LET out == fusion.out[1] IN
        /\ Len(out) <= fusion.top_n
        /\ \A i, j \in DOMAIN out :
              DocKey(out[i][1]) = DocKey(out[j][1]) => i = j
        /\ \A i, j \in DOMAIN out : i < j => out[i][3] >= out[j][3]
        /\ \A i \in DOMAIN out :
              LET pl == FirstPlace(fusion.rankings, DocKey(out[i][1])) IN
              /\ out[i][1] = fusion.rankings[pl[1]][pl[2]][1]
              /\ out[i][2] = fusion.rankings[pl[1]][pl[2]][2]
        /\ fusion.rankings = <<>> => out = <<>>

\* Two lists carry the same key with different contents and metadata, and
\* with a third document cut off by top_n = 1: the entry returned has the
\* content and metadata of the first list.
C34_Witness ==
    /\ fusion.out # None
    /\ fusion.top_n = 1
    /\ fusion.rankings = << <<<<ContentX, "m1", 0>>, <<ContentY, "m1", 0>>>>,
                            <<<<ContentX2, "m2", 0>>>> >>
    /\ Len(fusion.out[1]) = 1
    /\ fusion.out[1][1][1] = ContentX
    /\ fusion.out[1][1][2] = "m1"

----------------------------------------------------------------------------
\* More properties of create_vector_db.

\* C35: when a call for a non-empty list has returned, the index it saved
\* and the chunk list it saved hold the same chunks, every input chunk
\* among them.
C35_SavedIndexHoldsEveryChunk ==
    (cvd.pc = "returned" /\ cvd.texts # <<>>) =>
        /\ cvd.saved # None
        /\ Range(cvd.saved[1].index) = Range(cvd.saved[1].texts)
        /\ Range(cvd.texts) \subseteq Range(cvd.saved[1].index)

----------------------------------------------------------------------------
\* The lifetime of a cached chain (rag_engine.py:158-170).

\* The clock is followed for longer than QA_CHAIN_CACHE_TTL.
MaxTtlTime == 3

\* time.time() advances by one tick.
TickTtl ==
    /\ now < MaxTtlTime
    /\ now' = now + 1
    /\ ret' = NoRet
    /\ UNCHANGED <<_qa_chain_cache, index, chains, ready, call>>
    /\ UNCHANGED <<workerVars, batcherVars, ingestVars, rerankVars, chainVars, requestVars>>

\* Chat requests for one repository, its indexing, and the clock.
NextTtl ==
    \/ TickTtl
    \/ Arrive(PathNames[1])
    \/ Reindex(PathNames[1])
    \/ GetHit
    \/ \E ok \in BOOLEAN : GetMiss(ok)
    \/ BuildEnd

SpecTtl == Init /\ [][NextTtl]_vars

\* C36: a chain that get returns was built at most QA_CHAIN_CACHE_TTL
\* before the return: hits do not extend the lifetime of an entry, and an
\* entry read at intervals shorter than the TTL is still rebuilt once the
\* TTL has passed since its build.
C36_NeverReturnedAfterTtl ==
    (ret.op = "get" /\ ret.chain # None)
       => (now - ret.chain[1].built) * TickSeconds <= QA_CHAIN_CACHE_TTL

----------------------------------------------------------------------------
\* The index a finished ingestion leaves behind (worker.py:244-269).

\* rag_engine.py:72-74, 132-139: the create_vector_db call of job j's
\* handler went past `if not texts: return None` and returned after
\* db.save_local and the dump of texts.pkl: the handler has returned
\* "success" and load_and_index_repo had given it chunks.
SavedIndex(j) ==
    /\ runs[j].result = Some("success")
    /\ runs[j].load = "chunks"

\* C37: when a job has run ingestion (it was not skipped as already
\* indexed), is Completed and its repository is ready, create_vector_db
\* has saved index files at the vector path; a failed clone or an empty
\* chunk list never ends with the repository ready and the job Completed.
C37_ReadyMeansIndexSaved ==
    \A j \in RanAlone :
        ( /\ jobs[j].status = COMPLETED
          /\ runs[j].result # Some("skipped")
          /\ repos[RepoOf(jobs[j])] = "ready" )
           => SavedIndex(j)

----------------------------------------------------------------------------
\* reranker.HybridRetriever.retrieve  (reranker.py:207-267)
\*
\* A retriever either raises or returns a list, best document first.  The
\* scores of similarity_search_with_score come from the vector store and
\* are taken from a small set, in any order along the list.

\* The scores the vector store gives with its documents.
DenseScores == {1, 2}

\* What faiss_retriever.similarity_search_with_score(query, k=fetch_k)
\* does: it raises, or it returns (document, score) pairs.
DenseResults ==
    {[raised |-> TRUE, docs |-> <<>>]}
    \cup { [raised |-> FALSE, docs |-> d] :
             d \in SeqUpTo({ <<doc[1], doc[2], sc>> :
                               doc \in FusionDocs, sc \in DenseScores },
                           MaxRank) }

\* bm25_retriever is None, or get_relevant_documents(query) raises, or it
\* returns documents.
SparseResults ==
    {[retriever |-> FALSE, raised |-> FALSE, docs |-> <<>>],
     [retriever |-> TRUE, raised |-> TRUE, docs |-> <<>>]}
    \cup { [retriever |-> TRUE, raised |-> FALSE, docs |-> d] :
             d \in SeqUpTo(FusionDocs, MaxRank) }

\* The values of fetch_k.
FetchKs == 1..MaxRank

\* reranker.py:229-232: the ranking made of the vector store's answer.
FaissRanking(dense) == dense.docs

\* reranker.py:241-245: the ranking made of the first fetch_k BM25
\* documents; the score 1.0 / (i + 1) of the document at place i + 1 is
\* kept exact, in units of 1 / Den(0).
Bm25Ranking(sparse, fetch_k) ==
    LET bm25_docs == Prefix(sparse.docs, fetch_k) IN
    [p \in DOMAIN bm25_docs |->
        <<bm25_docs[p][1], bm25_docs[p][2], Term(0, p)>>]

\* reranker.py:224-249: the rankings of the retrievers that answered.
Rankings(dense, sparse, fetch_k) ==
    (IF dense.raised THEN <<>> ELSE <<FaissRanking(dense)>>)
    \o (IF sparse.retriever /\ ~sparse.raised
        THEN <<Bm25Ranking(sparse, fetch_k)>> ELSE <<>>)

\* reranker.py:252-257: the fused list, or the only ranking there is.
Combined(rankings, fetch_k) ==
    IF Len(rankings) > 1 THEN ReciprocalRankFusion(rankings, RrfK, fetch_k)
    ELSE IF rankings # <<>> THEN rankings[1]
    ELSE <<>>

\* reranker.py:260  `self.use_reranking and _SENTENCE_TRANSFORMERS_AVAILABLE`
Reranks(use_reranking, model) == use_reranking /\ model # "not_installed"

\* reranker.py:207-267; min_score is left at its default 0.0.
Retrieve(dense, sparse, use_reranking, model, prediction, k, fetch_k) ==
    LET rankings == Rankings(dense, sparse, fetch_k)
        combined == Combined(rankings, fetch_k)
    IN  IF rankings = <<>> THEN <<>>
        ELSE IF Reranks(use_reranking, model)
        THEN LET ranked ==
                   RerankDocuments(combined, k, 0, model, prediction).result
             IN  [i \in DOMAIN ranked |->
                    <<ranked[i].content, ranked[i].metadata,
                      ranked[i].rerank_score>>]
        ELSE Prefix(combined, k)

\* retrieve calls rerank_documents and that calls predict.
RetrieveScores(dense, sparse, use_reranking, model, fetch_k) ==
    /\ Reranks(use_reranking, model)
    /\ Scores(Combined(Rankings(dense, sparse, fetch_k), fetch_k), model)

\* retrieve(query, k, fetch_k) is called and predict is not.  The
\* retriever keeps nothing from one call to the next, so the model follows
\* one call.
RetrieveUnscored(dense, sparse, use_reranking, model, k, fetch_k) ==
    /\ hr = NoRetrieve
    /\ Len(dense.docs) <= fetch_k
    /\ ~RetrieveScores(dense, sparse, use_reranking, model, fetch_k)
    /\ hr' = [dense |-> Some(dense), sparse |-> Some(sparse),
              use_reranking |-> use_reranking, model |-> model,
              predict |-> None, k |-> k, fetch_k |-> fetch_k,
              out |-> Some(Retrieve(dense, sparse, use_reranking, model,
                                    None, k, fetch_k)),
              plain |-> None]
    /\ UNCHANGED <<now, workerVars, cacheVars, batcherVars, ingestVars,
                   rerankVars, chainVars, chatVars, limiterVars>>

\* retrieve(query, k, fetch_k) is called and predict is called.
RetrieveScored(dense, sparse, use_reranking, model, prediction, k, fetch_k) ==
    /\ hr = NoRetrieve
    /\ Len(dense.docs) <= fetch_k
    /\ RetrieveScores(dense, sparse, use_reranking, model, fetch_k)
    /\ hr' = [dense |-> Some(dense), sparse |-> Some(sparse),
              use_reranking |-> use_reranking, model |-> model,
              predict |-> Some(prediction), k |-> k, fetch_k |-> fetch_k,
              out |-> Some(Retrieve(dense, sparse, use_reranking, model,
                                    prediction, k, fetch_k)),
              plain |-> None]
    /\ UNCHANGED <<now, workerVars, cacheVars, batcherVars, ingestVars,
                   rerankVars, chainVars, chatVars, limiterVars>>

\* The same query is put to a retriever over the same stores that was
\* made with use_reranking=False.
RetrievePlain ==
    /\ hr.out # None
    /\ hr.plain = None
    /\ hr' = [hr EXCEPT !.plain =
                Some(Retrieve(hr.dense[1], hr.sparse[1], FALSE, hr.model,
                              None, hr.k, hr.fetch_k))]
    /\ UNCHANGED <<now, workerVars, cacheVars, batcherVars, ingestVars,
                   rerankVars, chainVars, chatVars, limiterVars>>

\* A call is enumerated only while none has been made.
NextRetrieve ==
    \/ /\ hr = NoRetrieve
       /\ \E dense \in DenseResults, sparse \in SparseResults,
             use_reranking \in BOOLEAN, model \in Models, k \in TopKs,
             fetch_k \in FetchKs :
             RetrieveUnscored(dense, sparse, use_reranking, model, k, fetch_k)
    \/ /\ hr = NoRetrieve
       /\ \E dense \in DenseResults, sparse \in SparseResults,
             use_reranking \in BOOLEAN, model \in Models, k \in TopKs,
             fetch_k \in FetchKs :
             \E prediction \in Predictions(
                    Len(Combined(Rankings(dense, sparse, fetch_k),
                                 fetch_k))) :
                RetrieveScored(dense, sparse, use_reranking, model,
                               prediction, k, fetch_k)
    \/ RetrievePlain

SpecRetrieve == Init /\ [][NextRetrieve]_vars

----------------------------------------------------------------------------
\* Properties of HybridRetriever.retrieve.

\* The (content, metadata) pairs of a result, in its order.
Documents(result) == [i \in DOMAIN result |-> <<result[i][1], result[i][2]>>]

\* The reranking model could not be loaded, or the scoring call failed.
RerankingFailed ==
    /\ hr.use_reranking
    /\ \/ hr.model \in {"not_installed", "load_fails"}
       \/ /\ hr.predict # None
          /\ ScoringError(Combined(Rankings(hr.dense[1], hr.sparse[1],
                                            hr.fetch_k), hr.fetch_k),
                          hr.predict[1]) # None

\* C38: when the reranking model cannot be loaded or fails while scoring,
\* retrieve returns the same documents in the same order as a retriever
\* with reranking disabled returns: the fused list, or the best-first list
\* of the one strategy that answered, truncated to k.
C38_FallbackEqualsPlain ==
    (hr.plain # None /\ RerankingFailed)
       => Documents(hr.out[1]) = Documents(hr.plain[1])

----------------------------------------------------------------------------
\* The chat endpoint and the memory of the cached chain
\* (routers/chat.py:53-241, rag_engine.py:152-185, 267-283)
\*
\* get_qa_chain gives every chain one ConversationBufferMemory, and
\* get_cached_qa_chain returns the chain cached for the vector_db_path to
\* every request for that repository.  A message is told by the client it
\* belongs to and its role.  A handler takes two steps: all it does before
\* `await invoke_chain_with_retry(...)`, and what follows the invocation.

\* routers/chat.py:208-210  `.limit(10)`, scaled down.
RecentLimit == 2

\* The longest chat memory and the most ChatMessage rows of a session.
MaxMemory == 6
MaxMessages == 3

Message(owner, role) == [owner |-> owner, role |-> role]

\* routers/chat.py:208-212: the RecentLimit newest rows of the session,
\* oldest first.
RecentMsgs(rows) ==
    SubSeq(rows, Len(rows) - Min(RecentLimit, Len(rows)) + 1, Len(rows))

\* routers/chat.py:212-217: the rows are added to the chain's memory.
Loaded(mem, s, rows) ==
    mem \o [i \in DOMAIN RecentMsgs(rows) |-> Message(s, RecentMsgs(rows)[i])]

\* rag_engine.py:268-279: the chain was built with memory=memory and
\* output_key='answer', so an invocation that succeeds saves the question
\* and the answer in that memory.
SaveContext(mem, c) ==
    mem \o <<Message(c, "user"), Message(c, "assistant")>>

\* routers/chat.py:192-220: a request of session s stores the user
\* message, gets the cached chain, adds the session's recent rows to the
\* chain's memory and invokes the chain, which reads its memory.
ChatBegin(s) ==
    /\ chats[s].pc = "idle"
    /\ Len(messages[s]) < MaxMessages
    /\ LET rows == Append(messages[s], "user")
           mem == Loaded(memory, s, rows)
       IN  /\ Len(mem) <= MaxMemory
           /\ messages' = [messages EXCEPT ![s] = rows]
           /\ memory' = mem
           /\ chats' = [chats EXCEPT ![s] = [pc |-> "invoking",
                                             history |-> Some(mem)]]
    /\ UNCHANGED <<now, workerVars, cacheVars, batcherVars, ingestVars,
                   rerankVars, chainVars, retrieveVars, limiterVars>>

\* routers/chat.py:219-241: the invocation ends; when it succeeded the
\* answer is stored as a row of the session, else the handler rolls back.
ChatEnd(s, ok) ==
    /\ chats[s].pc = "invoking"
    /\ IF ok /\ Len(memory) + 2 <= MaxMemory /\ Len(messages[s]) < MaxMessages
       THEN /\ memory' = SaveContext(memory, s)
            /\ messages' = [messages EXCEPT ![s] = Append(@, "assistant")]
       ELSE UNCHANGED <<memory, messages>>
    /\ chats' = [chats EXCEPT ![s].pc = "idle"]
    /\ UNCHANGED <<now, workerVars, cacheVars, batcherVars, ingestVars,
                   rerankVars, chainVars, retrieveVars, limiterVars>>

\* routers/chat.py:77-115: a guest's request gets the cached chain of the
\* repository and invokes it; nothing is loaded and nothing is stored.
GuestBegin(g) ==
    /\ chats[g].pc = "idle"
    /\ chats' = [chats EXCEPT ![g] = [pc |-> "invoking",
                                      history |-> Some(memory)]]
    /\ UNCHANGED <<memory, messages>>
    /\ UNCHANGED <<now, workerVars, cacheVars, batcherVars, ingestVars,
                   rerankVars, chainVars, retrieveVars, limiterVars>>

\* routers/chat.py:114-140: the guest's invocation ends.
GuestEnd(g, ok) ==
    /\ chats[g].pc = "invoking"
    /\ IF ok /\ Len(memory) + 2 <= MaxMemory
       THEN memory' = SaveContext(memory, g)
       ELSE UNCHANGED memory
    /\ chats' = [chats EXCEPT ![g].pc = "idle"]
    /\ UNCHANGED messages
    /\ UNCHANGED <<now, workerVars, cacheVars, batcherVars, ingestVars,
                   rerankVars, chainVars, retrieveVars, limiterVars>>

\* rag_engine.py:161-185: the entry of the repository has expired or was
\* cleared and the next request builds a chain, with an empty memory.
NewChain ==
    /\ \A c \in Clients : chats[c].pc = "idle"
    /\ memory # <<>>
    /\ memory' = <<>>
    /\ UNCHANGED <<messages, chats>>
    /\ UNCHANGED <<now, workerVars, cacheVars, batcherVars, ingestVars,
                   rerankVars, chainVars, retrieveVars, limiterVars>>

NextChat ==
    \/ \E s \in Sessions : ChatBegin(s)
    \/ \E s \in Sessions, ok \in BOOLEAN : ChatEnd(s, ok)
    \/ \E g \in Guests : GuestBegin(g)
    \/ \E g \in Guests, ok \in BOOLEAN : GuestEnd(g, ok)
    \/ NewChain

SpecChat == Init /\ [][NextChat]_vars

----------------------------------------------------------------------------
\* Properties of the chat endpoint.

\* C39: the chat history an invocation gives to the chain holds only
\* messages of the request's own session (or guest): messages put into the
\* cached chain's memory for one client are never there when a request of
\* another client uses the same cached chain.
C39_HistoryIsOwnSession ==
    \A c \in Clients :
        chats[c].history # None =>
            \A i \in DOMAIN chats[c].history[1] :
                chats[c].history[1][i].owner = c

----------------------------------------------------------------------------
\* rate_limiter.RateLimiter  (rate_limiter.py:7-48)
\*
\* One limiter object, called with one limit and one window, as
\* check_chat_limit calls chat_limiter (rate_limiter.py:57-59).  The calls
\* are made by `async def` endpoints on the event loop, one at a time.
\* The dict is a defaultdict(list): a key that is missing and a key with an
\* empty list read the same, so requests gives every user a list.

\* rate_limiter.py:55
RATE_LIMIT_WINDOW == 3600

\* rate_limiter.py:53  CHAT_RATE_LIMIT (50 by default), scaled down.
CHAT_RATE_LIMIT == 2

\* rate_limiter.py:25  `% 100`, scaled down.
CleanupPeriod == 2

\* The clock of the limiter stops here.
MaxLimiterTime == 3

\* rate_limiter.py:32  `user_requests[0] < now - window_seconds`; line 18
\* and line 47 keep `req >= now - window_seconds`, the same test negated.
Expired(req, t, window_seconds) ==
    req * TickSeconds < t * TickSeconds - window_seconds

\* rate_limiter.py:18, 47: the requests of a list that are in the window.
ValidRequests(user_requests, t, window_seconds) ==
    SelectSeq(user_requests, LAMBDA req : ~Expired(req, t, window_seconds))

\* rate_limiter.py:12-21  cleanup_old_requests
CleanupOldRequests(reqs, t, window_seconds) ==
    [u \in DOMAIN reqs |-> ValidRequests(reqs[u], t, window_seconds)]

\* rate_limiter.py:25  `sum(len(reqs) for reqs in self.requests.values())`
RECURSIVE TotalRequests(_, _)
TotalRequests(reqs, users) ==
    IF users = {} THEN 0
    ELSE LET u == CHOOSE u \in users : TRUE IN
         Len(reqs[u]) + TotalRequests(reqs, users \ {u})

\* rate_limiter.py:32-33: old requests are popped from the head.
RECURSIVE PopOld(_, _, _)
PopOld(user_requests, t, window_seconds) ==
    IF user_requests # <<>> /\ Expired(Head(user_requests), t, window_seconds)
    THEN PopOld(Tail(user_requests), t, window_seconds)
    ELSE user_requests

\* Mutant of AtLimit: one request more than the limit is let through.
OverLimit(n, limit) == n > limit

\* rate_limiter.py:35  `len(user_requests) >= limit`
AtLimit(n, limit) == n >= limit

\* rate_limiter.py:41-48  get_remaining
GetRemaining(reqs, user_id, limit, window_seconds, t) ==
    LET left == limit - Len(ValidRequests(reqs[user_id], t, window_seconds))
    IN  IF left > 0 THEN left ELSE 0

\* time.time() advances by one tick.
TickLimiter ==
    /\ now < MaxLimiterTime
    /\ now' = now + 1
    /\ verdict' = NoVerdict
    /\ UNCHANGED <<requests, admitted>>
    /\ UNCHANGED <<workerVars, cacheVars, batcherVars, ingestVars,
                   rerankVars, chainVars, retrieveVars, chatVars>>

\* rate_limiter.py:23-39  is_allowed(user_id, limit, window_seconds)
IsAllowed(user_id, limit, window_seconds) ==
    LET cleaned ==
            IF TotalRequests(requests, DOMAIN requests) % CleanupPeriod = 0
            THEN CleanupOldRequests(requests, now, window_seconds)
            ELSE requests
        user_requests == PopOld(cleaned[user_id], now, window_seconds)
        allowed == ~AtLimit(Len(user_requests), limit)
    IN  /\ requests' =
              [cleaned EXCEPT ![user_id] =
                  IF allowed THEN Append(user_requests, now)
                  ELSE user_requests]
        /\ admitted' =
              IF allowed THEN [admitted EXCEPT ![user_id] = Append(@, now)]
              ELSE admitted
        /\ verdict' =
              [user |-> Some(user_id), allowed |-> allowed,
               before |-> GetRemaining(requests, user_id, limit,
                                       window_seconds, now),
               remaining |-> GetRemaining(requests', user_id, limit,
                                          window_seconds, now)]
        /\ UNCHANGED <<now, workerVars, cacheVars, batcherVars, ingestVars,
                       rerankVars, chainVars, retrieveVars, chatVars>>

NextLimiter ==
    \/ TickLimiter
    \/ \E u \in Users : IsAllowed(u, CHAT_RATE_LIMIT, RATE_LIMIT_WINDOW)

SpecLimiter == Init /\ [][NextLimiter]_vars

----------------------------------------------------------------------------
\* Properties of the rate limiter.

\* The calls of user u that were allowed in the window_seconds that begin
\* at time t, both ends included.
AdmittedFrom(u, t) ==
    { i \in DOMAIN admitted[u] :
        /\ admitted[u][i] >= t
        /\ (admitted[u][i] - t) * TickSeconds <= RATE_LIMIT_WINDOW }

\* The calls of user u that were allowed in the window that ends now.
AdmittedLately(u) ==
    { i \in DOMAIN admitted[u] :
        ~Expired(admitted[u][i], now, RATE_LIMIT_WINDOW) }

\* C40: with a fixed limit and window, is_allowed lets at most `limit`
\* calls of a user through in any window of window_seconds; a call that is
\* denied adds nothing to the requests of its user; and a call of one user
\* leaves the requests that count for another user as they were, so that
\* the verdict follows from the user's own allowed calls.
C40_AtMostLimitPerWindow ==
    /\ [](\A u \in Users, t \in 0..MaxLimiterTime :
             Cardinality(AdmittedFrom(u, t)) <= CHAT_RATE_LIMIT)
    /\ [][ \A u \in Users :
             verdict'.user = Some(u) =>
                /\ ~verdict'.allowed =>
                      /\ requests'[u] =
                            ValidRequests(requests[u], now, RATE_LIMIT_WINDOW)
                      /\ admitted' = admitted
                      /\ verdict'.remaining = 0
                /\ verdict'.allowed <=>
                      Cardinality(AdmittedLately(u)) < CHAT_RATE_LIMIT
                /\ \A v \in Users \ {u} :
                      /\ admitted'[v] = admitted[v]
                      /\ ValidRequests(requests'[v], now, RATE_LIMIT_WINDOW)
                            = ValidRequests(requests[v], now,
                                            RATE_LIMIT_WINDOW)
                      /\ GetRemaining(requests', v, CHAT_RATE_LIMIT,
                                      RATE_LIMIT_WINDOW, now)
                            = GetRemaining(requests, v, CHAT_RATE_LIMIT,
                                           RATE_LIMIT_WINDOW, now)
          ]_vars

\* C40 witness: a user whose calls were allowed in two windows has just
\* been denied at the limit of the second one, and the other user has
\* been let through meanwhile.
C40_Witness ==
    /\ verdict.user = Some("u1") /\ ~verdict.allowed
    /\ Len(admitted["u1"]) = 2 * CHAT_RATE_LIMIT
    /\ Len(requests["u1"]) = CHAT_RATE_LIMIT
    /\ admitted["guest:g1"] # <<>>

====
